---- MODULE Spec2Model ----
(***************************************************************************)
(* Model of the FLYO adaptive agent (src/flyo): the lifecycle state        *)
(* machine of ExecutionContext (fsm.py) driven by FlyoAgent.execute        *)
(* (agent.py), the exit code computed by the command line front-end        *)
(* (main.py), the UI cache, the page analysis and the action dispatch of   *)
(* BrowserExecutor (executor.py) and the retry loop and plan validation    *)
(* of OllamaPlanner (planner.py).  The planner oracle, the approval        *)
(* callback, the browser start and what the page does to every dispatched  *)
(* action are environment choices.                                         *)
(*                                                                         *)
(* Spec is the agent with its executor; CacheSpec, ExecutorSpec,           *)
(* AnalyzerSpec and PlannerSpec drive the cache, execute_action,           *)
(* get_page_context and generate_plan on their own, with all their inputs; *)
(* KeySpec drives the cache key over all short urls, FsmSpec the           *)
(* transitions of an execution context, FileSpec the save and load of the  *)
(* cache file step by step, ParserSpec the extraction of the array from    *)
(* the text of an oracle response, FindBestSpec the find_best handler on   *)
(* the extracted items, SelectorSpec the recommended search selector,      *)
(* RecoverySpec the outstanding tasks of the recovery prompt,              *)
(* SharedFileSpec two executors on one cache file, and SecondTaskSpec a    *)
(* later execute() call of an agent whose earlier task is over.            *)
(***************************************************************************)
EXTENDS Integers, Sequences, FiniteSets, TLC

\* ---------------------------------------------------------------- bounds
\* longest plan the planner oracle returns in the model
MaxPlanLen == 2
\* largest value of ExecutionContext.max_self_heal_attempts explored
MaxHealLimit == 3
\* largest value of CacheConfig.max_entries explored
MaxEntriesLimit == 2
\* number of clock advances explored (each of ClockStep hours)
MaxTicks == 2
\* largest hit_count a cache entry reaches in the model
MaxHits == 1
\* longest oracle response (number of elements of the array) explored
MaxOracleLen == 2
\* number of accepted transitions of an execution context on its own
MaxTransitions == 6
\* longest url (number of pieces) given to the cache on its own
MaxUrlLen == 3

\* ------------------------------------------------------------- constants
\* fsm.py:45, default of ExecutionContext.max_self_heal_attempts
DefaultMaxSelfHealAttempts == 2

\* config.py:42, default of CacheConfig.max_entries
DefaultMaxEntries == 100

\* config.py:43, default of CacheConfig.max_age_hours
DefaultMaxAgeHours == 24

\* hours by which one clock advance of the model moves the time: just over
\* the default age limit
ClockStep == DefaultMaxAgeHours + 1

\* planner.py:26, OllamaPlanner.max_retries
max_retries == 3

\* request strings given to execute()
Goals == {"buy cheapest mouse", "search python"}

\* planner.py:417-421, the closed action vocabulary accepted by _validate_plan
valid_actions ==
    {"navigate", "type", "click", "scroll", "wait", "extract", "find_best",
     "add_to_cart", "auto_login", "human_pause", "screenshot"}

\* agent.py:145-148, the risky set of _approval_phase
risky_actions ==
    {"submit_form", "proceed_to_checkout", "auto_login", "delete",
     "confirm_purchase"}

\* the discriminators the oracle draws from in the model (a subset of the
\* vocabulary holding risky and harmless actions)
PlanActions == {"navigate", "wait", "auto_login"}

\* fsm.py:16-25
AgentState ==
    {"idle", "planning", "awaiting_approval", "executing", "error",
     "self_healing", "completed", "cancelled"}

\* Python None for error_message, and the absence of a pending exception
None == "None"

VARIABLES
    pc,                     \* position of the execute() coroutine
    state,                  \* ExecutionContext.state
    history,                \* the states observed, in order (log of transition)
    request,                \* the argument given to execute()
    user_request,           \* ExecutionContext.user_request
    original_goal,          \* FlyoAgent.original_goal
    action_plan,            \* ExecutionContext.action_plan
    current_step_idx,       \* ExecutionContext.current_step_idx
    executed_steps,         \* ExecutionContext.executed_steps
    error_message,          \* ExecutionContext.error_message
    approval_required,      \* ExecutionContext.approval_required
    self_heal_attempts,     \* ExecutionContext.self_heal_attempts
    max_self_heal_attempts, \* ExecutionContext.max_self_heal_attempts
    require_approval,       \* FlyoAgent.require_approval
    approval_callback,      \* TRUE iff FlyoAgent.approval_callback is set
    approval_answer,        \* what the approval callback did in this task
    planner_calls,          \* arguments of the generate_plan calls of the task
    returned_plan,          \* the plan returned by the latest generate_plan
    plan_no,                \* number of plans installed in action_plan
    approved,               \* plans (by number) the callback was given and approved
    dispatched,             \* actions handed to executor.execute_action
    idx,                    \* loop variable of _execution_phase (next index)
    in_heal,                \* TRUE inside _adaptive_self_heal
    exc,                    \* message of the exception being handled
    result,                 \* value returned by execute()
    raised,                 \* exception propagated by execute() to its caller
    browser,                \* executor.browser: "none", "started", "closed"
    exit_code,              \* exit code of main_async, -1 before it exits
    ui_cache,               \* UICache.cache: normalized url -> entry
    page,                   \* the live page of executor.page (url, visible text)
    now,                    \* the time in hours (datetime.now())
    cache_config,           \* CacheConfig: max_entries, max_age_hours
    op,                     \* the latest executor or cache operation and its result
    ctx_last,               \* the latest get_page_context call and its result
    heal_analysis,          \* the analysis request of the latest recovery
    gp_pc,                  \* position of generate_plan
    gp_attempt,             \* loop variable `attempt` of generate_plan
    gp_requests,            \* requests sent to the oracle by this generate_plan call
    gp_failed,              \* attempts of this call that failed
    gp_output,              \* the latest oracle response
    gp_result,              \* the plan returned by generate_plan
    cache_file,             \* the file at UICache.cache_file
    save_pc,                \* position of the process in UICache.save
    peer_cache              \* UICache.cache of a second executor on the file

\* the state of the agent: FlyoAgent and its ExecutionContext
agentVars ==
    <<pc, state, history, request, user_request, original_goal, action_plan,
      current_step_idx, executed_steps, error_message, approval_required,
      self_heal_attempts, max_self_heal_attempts, require_approval,
      approval_callback, approval_answer, planner_calls, returned_plan,
      plan_no, approved, dispatched, idx, in_heal, exc, result, raised,
      browser, exit_code>>

\* the state of the executor: its UI cache and its page
execVars == <<ui_cache, page, now, cache_config>>

\* records of the latest operations, read by the properties
logVars == <<op, ctx_last, heal_analysis>>

\* the state of one generate_plan call
plannerVars ==
    <<gp_pc, gp_attempt, gp_requests, gp_failed, gp_output, gp_result>>

\* the cache file on disk and the save under way; the file is followed in
\* FileSpec, everywhere else ui_cache is the map in memory and no step of a
\* save is looked at
fileVars == <<cache_file, save_pc, peer_cache>>

vars == <<agentVars, execVars, logVars, plannerVars, fileVars>>

\* configuration and inputs, fixed while a task runs
cfgVars ==
    <<request, user_request, original_goal, max_self_heal_attempts,
      require_approval, approval_callback>>

\* -------------------------------------------------------------- helpers

\* all validated plans of the model: non-empty, at most MaxPlanLen actions
Plans == UNION {[1..n -> PlanActions] : n \in 1..MaxPlanLen}

NoResult ==
    [status |-> "none", state |-> "none", request |-> "", steps_executed |-> 0,
     self_heal_attempts |-> 0, error |-> None]

\* a transition check that accepts every target
IsValidTransitionAny(from_state, to_state) == TRUE

\* fsm.py:70-93 ExecutionContext._is_valid_transition
IsValidTransition(from_state, to_state) ==
    CASE from_state = "idle" -> to_state \in {"planning"}
      [] from_state = "planning" ->
            to_state \in {"awaiting_approval", "error", "executing"}
      [] from_state = "awaiting_approval" ->
            to_state \in {"executing", "cancelled", "error"}
      [] from_state = "executing" -> to_state \in {"completed", "error"}
      [] from_state = "error" -> to_state \in {"self_healing", "completed"}
      [] from_state = "self_healing" ->
            to_state \in {"executing", "error", "completed"}
      [] from_state = "completed" -> FALSE
      [] from_state = "cancelled" -> FALSE
      [] OTHER -> FALSE

\* fsm.py:61 the assignment of an accepted transition (and its log line)
Transition(new_state) ==
    /\ state' = new_state
    /\ history' = Append(history, new_state)

\* a summary taken of the context as it was before the step: the state it
\* reports is the one the task had before its last transition
FormatResultStale(status, st, steps, attempts, err) ==
    [status |-> status, state |-> state, request |-> user_request,
     steps_executed |-> Len(steps), self_heal_attempts |-> attempts,
     error |-> err]

\* fsm.py:120-141 get_execution_summary and agent.py:276-292 _format_result,
\* evaluated on the context as it is after the step (the primed values)
FormatResult(status, st, steps, attempts, err) ==
    [status |-> status, state |-> st, request |-> user_request,
     steps_executed |-> Len(steps), self_heal_attempts |-> attempts,
     error |-> err]

\* agent.py:151-154 has_risky
HasRisky(plan) == \E i \in 1..Len(plan) : plan[i] \in risky_actions

\* where an exception raised by the running phase is caught:
\* agent.py:94 in execute, agent.py:104 when inside _adaptive_self_heal
Handler == IF in_heal THEN "heal_except" ELSE "except"

\* the goal of a recovery call rewritten from the failure
RecoveryGoalRewritten == "recover from error"

\* agent.py:247 the user_request argument of the recovery planner call
RecoveryGoal == original_goal

\* a recovery plan appended to the failed plan
InstallRecoveryPlanAppended(old_plan, recovery_plan) == old_plan \o recovery_plan

\* agent.py:263 the plan installed by a recovery
InstallRecoveryPlan(old_plan, recovery_plan) == recovery_plan

\* ------------------------------------------------- executor data (pages)

\* URLs are sequences of pieces; "?", "#" and "/" are the characters that
\* normalization looks at, every other piece is free of them
UrlA == <<"https://x.com", "/", "a">>
UrlAQuery == <<"https://x.com", "/", "a", "/", "?", "q=1", "#", "h">>
UrlB == <<"https://x.com", "/", "b">>
UrlBlank == <<"about:blank">>

\* URLs of the pages the browser shows
PageUrls == {UrlA, UrlAQuery, UrlB}

\* visible body texts of pages
Texts == {"T1", "T2"}

\* length in characters of document.body.innerText for each body text
BodyLength(text) ==
    CASE text = "T1" -> 100
      [] text = "T2" -> 500
      [] OTHER -> 0

\* what the in-page script finds of a page besides its body text: the ids,
\* names and selectors of its inputs, buttons, links and containers
Elements == {"E1", "E2"}

Pages == [url : PageUrls, text : Texts, elements : {"E1"}]

\* executor.py:141 page is None until the browser is started
NoPage == [url |-> <<>>, text |-> "no page", elements |-> ""]

\* executor.py:168 the page opened by start()
BlankPage == [url |-> UrlBlank, text |-> "", elements |-> ""]

\* the page shown after a successful navigate action, and the item page that
\* find_best opens
TargetPage == [url |-> UrlAQuery, text |-> "T2", elements |-> "E1"]

ItemPage == [url |-> UrlB, text |-> "T2", elements |-> "E1"]

Min(S) == CHOOSE x \in S : \A y \in S : x <= y

Max(S) == CHOOSE x \in S : \A y \in S : x >= y

\* str.split(c)[0]: the part before the first occurrence of c
SplitFirst(u, c) ==
    LET at == {i \in 1..Len(u) : u[i] = c}
    IN  IF at = {} THEN u ELSE SubSeq(u, 1, Min(at) - 1)

\* str.rstrip(c): every trailing c removed
RStrip(u, c) ==
    LET keep == {i \in 1..Len(u) : u[i] # c}
    IN  IF keep = {} THEN <<>> ELSE SubSeq(u, 1, Max(keep))

\* a normalization that removes one trailing slash only
NormalizeUrlOneSlash(url) ==
    LET u == SplitFirst(SplitFirst(url, "?"), "#")
    IN  IF u # <<>> /\ u[Len(u)] = "/" THEN SubSeq(u, 1, Len(u) - 1) ELSE u

\* executor.py:85-86 UICache._normalize_url
NormalizeUrl(url) == RStrip(SplitFirst(SplitFirst(url, "?"), "#"), "/")

\* executor.py:272 sha256 of the body text (injective on the texts)
Hash(text) == <<"sha256", text>>

\* executor.py:294-374 _build_ui_analysis: the analysis of a page; ui_text
\* is rendered from the url, the elements and the body text, selectors are
\* those of the elements
BuildUiAnalysis(pg) ==
    [ui_text |-> <<"PAGE ANALYSIS", pg.url, pg.elements, pg.text>>,
     selectors |-> pg.elements, url |-> pg.url, cached |-> FALSE]

\* executor.py:292 the analysis returned when the in-page script fails
ErrorAnalysis(url) ==
    [ui_text |-> <<"Error">>, selectors |-> "", url |-> url, cached |-> FALSE]

\* executor.py:195 the context returned when there is no page
EmptyContext ==
    [ui_text |-> <<>>, selectors |-> "", url |-> <<>>, cached |-> FALSE]

\* ------------------------------------------------------------- UI cache

EmptyCache == [k \in {} |-> 0]

\* a lookup that does not compare the content hash
CacheGetAnyHash(cache, url, ui_hash, t) ==
    LET k == NormalizeUrl(url)
    IN  IF k \in DOMAIN cache
        THEN [hit |-> TRUE,
              cache |-> [cache EXCEPT ![k].hit_count = @ + 1,
                                      ![k].last_hit = t]]
        ELSE [hit |-> FALSE, cache |-> cache]

\* executor.py:51-62 UICache.get: a hit needs an entry under the normalized
\* url with the given hash; a hit counts and stamps the entry
CacheGet(cache, url, ui_hash, t) ==
    LET k == NormalizeUrl(url)
    IN  IF k \in DOMAIN cache /\ cache[k].hash = ui_hash
        THEN [hit |-> TRUE,
              cache |-> [cache EXCEPT ![k].hit_count = @ + 1,
                                      ![k].last_hit = t]]
        ELSE [hit |-> FALSE, cache |-> cache]

\* a set that carries the counters of the entry it replaces over
CacheSetKeepingCount(cache, url, ui_hash, ui_analysis, t) ==
    LET k == NormalizeUrl(url)
        e == [hash |-> ui_hash, analysis |-> ui_analysis, timestamp |-> t,
              hit_count |-> IF k \in DOMAIN cache THEN cache[k].hit_count
                            ELSE 0,
              last_hit |-> IF k \in DOMAIN cache THEN cache[k].last_hit
                           ELSE -1]
    IN  [x \in DOMAIN cache \union {k} |-> IF x = k THEN e ELSE cache[x]]

\* executor.py:64-76 UICache.set: the entry of the normalized url is replaced
CacheSet(cache, url, ui_hash, ui_analysis, t) ==
    LET k == NormalizeUrl(url)
        e == [hash |-> ui_hash, analysis |-> ui_analysis, timestamp |-> t,
              hit_count |-> 0, last_hit |-> -1]
    IN  [x \in DOMAIN cache \union {k} |-> IF x = k THEN e ELSE cache[x]]

\* executor.py:78-83 UICache.invalidate
CacheInvalidate(cache, url) ==
    LET k == NormalizeUrl(url)
    IN  [x \in DOMAIN cache \ {k} |-> cache[x]]

\* a get_page_context that returns the stored analysis without marking it
GetPageContextUnmarked(cache, pg, force_fresh, script_ok, t) ==
    IF pg = NoPage THEN [analysis |-> EmptyContext, cache |-> cache]
    ELSE IF ~script_ok
    THEN [analysis |-> ErrorAnalysis(pg.url), cache |-> cache]
    ELSE LET got == CacheGet(cache, pg.url, Hash(pg.text), t)
             k == NormalizeUrl(pg.url)
         IN  IF ~force_fresh /\ got.hit
             THEN [analysis |-> got.cache[k].analysis, cache |-> got.cache]
             ELSE [analysis |-> BuildUiAnalysis(pg),
                   cache |-> CacheSet(IF force_fresh THEN cache ELSE got.cache,
                                      pg.url, Hash(pg.text),
                                      BuildUiAnalysis(pg), t)]

\* a get_page_context that stores the error analysis under the url of the
\* page when the in-page script fails
GetPageContextCachingErrors(cache, pg, force_fresh, script_ok, t) ==
    IF pg = NoPage THEN [analysis |-> EmptyContext, cache |-> cache]
    ELSE IF ~script_ok
    THEN [analysis |-> ErrorAnalysis(pg.url),
          cache |-> CacheSet(cache, pg.url, Hash(pg.text),
                             ErrorAnalysis(pg.url), t)]
    ELSE LET got == CacheGet(cache, pg.url, Hash(pg.text), t)
             k == NormalizeUrl(pg.url)
         IN  IF ~force_fresh /\ got.hit
             THEN [analysis |-> [got.cache[k].analysis EXCEPT !.cached = TRUE],
                   cache |-> [got.cache EXCEPT ![k].analysis.cached = TRUE]]
             ELSE [analysis |-> BuildUiAnalysis(pg),
                   cache |-> CacheSet(IF force_fresh THEN cache ELSE got.cache,
                                      pg.url, Hash(pg.text),
                                      BuildUiAnalysis(pg), t)]

\* executor.py:189-292 get_page_context: no page gives the empty context, a
\* failing in-page script the error analysis (nothing cached); otherwise the
\* cache is consulted unless force_fresh, a hit returns the stored analysis
\* marked cached (the stored record is the one that is marked), and a miss
\* builds the analysis and stores it
GetPageContext(cache, pg, force_fresh, script_ok, t) ==
    IF pg = NoPage THEN [analysis |-> EmptyContext, cache |-> cache]
    ELSE IF ~script_ok
    THEN [analysis |-> ErrorAnalysis(pg.url), cache |-> cache]
    ELSE LET got == CacheGet(cache, pg.url, Hash(pg.text), t)
             k == NormalizeUrl(pg.url)
         IN  IF ~force_fresh /\ got.hit
             THEN [analysis |-> [got.cache[k].analysis EXCEPT !.cached = TRUE],
                   cache |-> [got.cache EXCEPT ![k].analysis.cached = TRUE]]
             ELSE [analysis |-> BuildUiAnalysis(pg),
                   cache |-> CacheSet(IF force_fresh THEN cache ELSE got.cache,
                                      pg.url, Hash(pg.text),
                                      BuildUiAnalysis(pg), t)]

\* ------------------------------------------------------- action handlers

\* what the page does to a handler: "ok" every page primitive succeeds (and
\* items are found, credentials exist); "page_error" the primitives the
\* handler depends on raise a Playwright error (for type: the primary
\* selector and every fallback; for add_to_cart: every candidate selector);
\* "no_items" an extraction finds nothing; "no_credentials" no stored
\* credentials for the site
PageEvents == {"ok", "page_error", "no_items", "no_credentials"}

\* the events of the page that can happen to each handler
Events(action) ==
    CASE action \in {"extract", "find_best"} -> {"ok", "page_error", "no_items"}
      [] action = "auto_login" -> {"ok", "page_error", "no_credentials"}
      [] action = "human_pause" -> {"ok"}
      [] action \in valid_actions -> {"ok", "page_error"}
      [] OTHER -> {"ok"}

\* the events of an execute_action call on any action record: those of the
\* page, "missing_field" for a record without the url or selector its
\* handler checks for (executor.py:436, 449, 488, 501), "other_error" for a
\* field of the wrong type that makes the handler raise a TypeError before
\* it reaches the page (timeout at executor.py:499, amount at 737)
ActionEvents(action) ==
    Events(action)
    \union (IF action \in {"navigate", "type", "click", "wait"}
            THEN {"missing_field"} ELSE {})
    \union (IF action \in {"wait", "scroll"} THEN {"other_error"} ELSE {})

\* discriminators outside the vocabulary: an unknown name, the name of the
\* fallback handler, and "" for a record without an action field
OtherDiscriminators == {"unknown", "generic", ""}

\* executor.py:506-514 the soft success of wait: the body text is longer
\* than 100 characters
HasContent(pg) == BodyLength(pg.text) > 100

\* executor.py:434-757 the handlers, by what they hand back to
\* execute_action: "success", "failed" (a failed result returned by the
\* handler itself), "raise" (a Playwright error left to propagate) or
\* "error" (another exception left to propagate)
HandlerOutcome(action, ev, pg) ==
    CASE ev = "missing_field" -> "failed"       \* 436, 449, 488, 501
      [] ev = "other_error" -> "error"          \* 499, 737
      [] action = "navigate" ->                 \* 434-442
            IF ev = "ok" THEN "success" ELSE "raise"
      [] action = "type" ->                     \* 444-484 bare except, fallbacks
            IF ev = "ok" THEN "success" ELSE "failed"
      [] action = "click" ->                    \* 486-495
            IF ev = "ok" THEN "success" ELSE "raise"
      [] action = "wait" ->                     \* 497-514
            IF ev = "ok" \/ HasContent(pg) THEN "success" ELSE "raise"
      [] action = "extract" ->                  \* 516-542 query errors give []
            IF ev = "ok" THEN "success" ELSE "failed"
      [] action = "find_best" ->                \* 641-667 goto errors propagate
            IF ev = "ok" THEN "success"
            ELSE IF ev = "page_error" THEN "raise" ELSE "failed"
      [] action = "add_to_cart" ->              \* 675-694 bare except per selector
            IF ev = "ok" THEN "success" ELSE "failed"
      [] action = "auto_login" ->               \* 696-717 except Exception
            IF ev = "ok" THEN "success" ELSE "failed"
      [] action = "scroll" ->                   \* 734-745
            IF ev = "ok" THEN "success" ELSE "raise"
      [] action = "screenshot" ->               \* 747-751
            IF ev = "ok" THEN "success" ELSE "raise"
      [] action = "human_pause" -> "success"    \* 719-732
      [] OTHER -> "failed"                      \* 753-757 _action_generic

\* executor.py:508-512 the note of a wait that succeeded on the content of
\* the page alone
HandlerNote(action, ev, pg) ==
    action = "wait" /\ ev = "page_error" /\ HasContent(pg)

\* executor.py:434-757 whether the handler calls a primitive of the page:
\* not when a required field is missing or the arithmetic on a field fails
\* before the first call, not for human_pause, not for auto_login without
\* credentials, not for _action_generic
CallsPage(action, ev) ==
    /\ action \in valid_actions
    /\ action # "human_pause"
    /\ ev \notin {"missing_field", "other_error", "no_credentials"}

\* an except clause list without the catch-all
ExceptClauseOnlyPlaywright(outcome) ==
    IF outcome = "raise" THEN "PlaywrightError" ELSE "none"

\* executor.py:423-432 the except clause of execute_action that catches
\* what the handler let propagate
ExceptClause(outcome) ==
    CASE outcome = "raise" -> "PlaywrightError"
      [] outcome = "error" -> "Exception"
      [] OTHER -> "none"

\* executor.py:544-586 extract and find_best analyse the page first, through
\* a get_page_context call without force_fresh
AnalysesPage(action) == action \in {"extract", "find_best"}

\* the page shown once the handler is through
Landing(action, outcome, pg) ==
    IF outcome # "success" THEN pg
    ELSE CASE action = "navigate" -> TargetPage
           [] action = "find_best" -> ItemPage
           [] OTHER -> pg

\* executor.py:404-432 execute_action: no page gives failed; the handler
\* runs; a Playwright error that reaches execute_action invalidates the
\* cache entry of the current url and gives failed, any other exception
\* gives failed; "raised" stands for an exception that no clause catches
ExecuteAction(cache, pg, action, ev, script_ok, t) ==
    IF pg = NoPage
    THEN [status |-> "failed", cache |-> cache, page |-> pg,
          page_failure |-> FALSE, invalidated |-> FALSE,
          analysed |-> FALSE, analysis |-> EmptyContext,
          note |-> FALSE, primitive |-> FALSE]
    ELSE LET ctx == IF AnalysesPage(action)
                    THEN GetPageContext(cache, pg, FALSE, script_ok, t)
                    ELSE [analysis |-> EmptyContext, cache |-> cache]
             outcome == HandlerOutcome(action, ev, pg)
         IN  [status |-> IF outcome \in {"success", "failed"} THEN outcome
                         ELSE IF ExceptClause(outcome) = "none" THEN "raised"
                         ELSE "failed",
              note |-> HandlerNote(action, ev, pg),
              primitive |-> CallsPage(action, ev),
              cache |-> IF ExceptClause(outcome) = "PlaywrightError"
                        THEN CacheInvalidate(ctx.cache, pg.url)
                        ELSE ctx.cache,
              page |-> Landing(action, outcome, pg),
              page_failure |-> outcome # "success"
                               /\ ev \in {"page_error", "no_items"},
              invalidated |-> outcome = "raise",
              analysed |-> AnalysesPage(action),
              analysis |-> ctx.analysis]

\* ----------------------------------------------------------------- Init
\* the agent after FlyoAgent.__init__ (agent.py:44-50); require_approval is
\* the constructor argument, max_self_heal_attempts the value of the
\* ExecutionContext field (default 2, fsm.py:45)
AgentReady ==
    /\ pc = "ready"
    /\ state = "idle"
    /\ history = <<"idle">>
    /\ request = ""
    /\ user_request = ""
    /\ original_goal = ""
    /\ action_plan = <<>>
    /\ current_step_idx = 0
    /\ executed_steps = <<>>
    /\ error_message = None
    /\ approval_required = FALSE
    /\ self_heal_attempts = 0
    /\ max_self_heal_attempts \in 0..MaxHealLimit
    /\ require_approval \in BOOLEAN
    /\ approval_callback = FALSE
    /\ approval_answer = "none"
    /\ planner_calls = <<>>
    /\ returned_plan = <<>>
    /\ plan_no = 0
    /\ approved = {}
    /\ dispatched = <<>>
    /\ idx = 0
    /\ in_heal = FALSE
    /\ exc = None
    /\ result = NoResult
    /\ raised = None
    /\ exit_code = -1

\* executor.py:138-141 the executor of a new agent has no browser yet
AgentInit ==
    /\ AgentReady
    /\ browser = "none"

\* executor.py:29-49 the UI cache is loaded from its file: empty, or what an
\* earlier run stored
InitialCaches ==
    {EmptyCache,
     CacheSet(EmptyCache, UrlA, Hash("T1"),
              BuildUiAnalysis([url |-> UrlA, text |-> "T1", elements |-> "E1"]), 0)}

\* config.py:37-47 CacheConfig with its defaults
DefaultCacheConfig ==
    [max_entries |-> DefaultMaxEntries, max_age_hours |-> DefaultMaxAgeHours]

\* nothing recorded yet
NoOp == [kind |-> "none", n |-> 0]

NoCall ==
    [called |-> FALSE, n |-> 0, on_page |-> FALSE, key |-> <<>>, text |-> "",
     force_fresh |-> FALSE,
     script_ok |-> FALSE, entry_present |-> FALSE, analysis |-> EmptyContext,
     invalidated |-> FALSE]

\* the record of a get_page_context call on page pg with the cache as it is
\* when the call is made, and the analysis the call returned; n alternates
\* from one recorded call to the next
Call(cache, pg, force_fresh, script_ok, analysis) ==
    [called |-> TRUE, n |-> 1 - ctx_last.n, on_page |-> pg # NoPage,
     key |-> NormalizeUrl(pg.url),
     text |-> pg.text,
     force_fresh |-> force_fresh, script_ok |-> script_ok,
     entry_present |-> NormalizeUrl(pg.url) \in DOMAIN cache,
     analysis |-> analysis, invalidated |-> FALSE]

LogInit ==
    /\ op = NoOp
    /\ ctx_last = NoCall
    /\ heal_analysis = NoCall

\* a cache file holding the whole of map m, the result of the latest save
FileHolding(m) == [content |-> "complete", map |-> m, before |-> m]

\* no save under way, the file as an empty cache left it
FileIdle ==
    /\ cache_file = FileHolding(EmptyCache)
    /\ save_pc = "idle"
    /\ peer_cache = EmptyCache

\* no generate_plan call under way
PlannerIdle ==
    /\ gp_pc = "idle"
    /\ gp_attempt = 0
    /\ gp_requests = 0
    /\ gp_failed = 0
    /\ gp_output = [kind |-> "none", value |-> <<>>]
    /\ gp_result = <<>>

\* the agent and its executor after construction (executor.py:133-148: no
\* browser and no page yet)
Init ==
    /\ AgentInit
    /\ ui_cache \in InitialCaches
    /\ page = NoPage
    /\ now = 0
    /\ cache_config = DefaultCacheConfig
    /\ LogInit
    /\ PlannerIdle
    /\ FileIdle

\* -------------------------------------------------------------- actions

\* agent.py:54-56 set_approval_callback
SetApprovalCallback ==
    /\ pc = "ready"
    /\ approval_callback = FALSE
    /\ approval_callback' = TRUE
    /\ UNCHANGED <<pc, state, history, request, user_request, original_goal,
                   action_plan, current_step_idx, executed_steps,
                   error_message, approval_required, self_heal_attempts,
                   max_self_heal_attempts, require_approval, approval_answer,
                   planner_calls, returned_plan, plan_no, approved,
                   dispatched, idx, in_heal, exc, result, raised, browser,
                   exit_code,
                   execVars, logVars, plannerVars, fileVars>>

\* agent.py:72-73 execute(): a new ExecutionContext for the request and the
\* stored original goal
Execute ==
    /\ pc = "ready"
    /\ \E r \in Goals :
          /\ request' = r
          /\ user_request' = r
          /\ original_goal' = r
    /\ state' = "idle"
    /\ history' = <<"idle">>
    /\ action_plan' = <<>>
    /\ executed_steps' = <<>>
    /\ current_step_idx' = 0
    /\ error_message' = None
    /\ approval_required' = FALSE
    /\ self_heal_attempts' = 0
    /\ pc' = "start"
    /\ UNCHANGED <<max_self_heal_attempts, require_approval,
                   approval_callback, approval_answer, planner_calls,
                   returned_plan, plan_no, approved, dispatched, idx, in_heal,
                   exc, result, raised, browser, exit_code,
                   execVars, logVars, plannerVars, fileVars>>

\* agent.py:77-78 with executor.py:150-176: the browser is started when
\* executor.browser is unset; a failing start raises into execute's handler
StartBrowser ==
    /\ pc = "start"
    /\ \/ /\ browser' = IF browser = "none" THEN "started" ELSE browser
          /\ page' = IF browser = "none" THEN BlankPage ELSE page
          /\ pc' = "plan"
          /\ exc' = exc
       \/ /\ browser = "none"
          /\ browser' = browser
          /\ page' = page
          /\ exc' = "Failed to start browser"
          /\ pc' = "except"
    /\ UNCHANGED <<state, history, cfgVars, action_plan, current_step_idx,
                   executed_steps, error_message, approval_required,
                   self_heal_attempts, approval_answer, planner_calls,
                   returned_plan, plan_no, approved, dispatched, idx, in_heal,
                   result, raised, exit_code,
                   ui_cache, now, cache_config, logVars, plannerVars, fileVars>>

\* agent.py:113-138 _plan_phase: transition to planning, the page analysis
\* (get_page_context without force_fresh), then the initial generate_plan
\* call, which returns a validated plan or raises
PlanPhase ==
    /\ pc = "plan"
    /\ IF ~IsValidTransition(state, "planning")
       THEN /\ exc' = "Invalid transition"
            /\ pc' = "except"
            /\ UNCHANGED <<state, history, planner_calls, returned_plan,
                           action_plan, plan_no, ui_cache>>
       ELSE /\ Transition("planning")
            /\ \E script_ok \in BOOLEAN :
                  LET ctx == GetPageContext(ui_cache, page, FALSE, script_ok,
                                            now)
                  IN  /\ ui_cache' = ctx.cache
                      /\ planner_calls' =
                            Append(planner_calls,
                                   [user_request |-> original_goal,
                                    recovery |-> FALSE,
                                    ui_context |-> ctx.analysis.ui_text])
            /\ \/ \E p \in Plans :
                     /\ returned_plan' = p
                     /\ action_plan' = p
                     /\ plan_no' = plan_no + 1
                     /\ exc' = exc
                     /\ pc' = IF require_approval THEN "approval"
                                                  ELSE "execution"
               \/ /\ exc' = "Plan generation failed"
                  /\ pc' = "except"
                  /\ UNCHANGED <<returned_plan, action_plan, plan_no>>
    /\ UNCHANGED <<cfgVars, current_step_idx, executed_steps, error_message,
                   approval_required, self_heal_attempts, approval_answer,
                   approved, dispatched, idx, in_heal, result, raised,
                   browser, exit_code,
                   page, now, cache_config, logVars, plannerVars, fileVars>>

\* agent.py:140-168 _approval_phase: a plan holding a risky action is handed
\* to the approval callback when one is set; the callback approves, rejects
\* (transition to cancelled, then "User rejected action plan" is raised) or
\* raises itself
ApprovalPhase ==
    /\ pc = "approval"
    /\ IF ~IsValidTransition(state, "awaiting_approval")
       THEN /\ exc' = "Invalid transition"
            /\ pc' = "except"
            /\ UNCHANGED <<state, history, approval_required,
                           approval_answer, approved>>
       ELSE IF ~HasRisky(action_plan)
       THEN /\ Transition("awaiting_approval")
            /\ pc' = "execution"
            /\ UNCHANGED <<exc, approval_required, approval_answer, approved>>
       ELSE IF ~approval_callback
       THEN /\ Transition("awaiting_approval")
            /\ approval_required' = TRUE
            /\ pc' = "execution"
            /\ UNCHANGED <<exc, approval_answer, approved>>
       ELSE /\ approval_required' = TRUE
            /\ \/ /\ approval_answer' = "approved"
                  /\ approved' = approved \union {plan_no}
                  /\ Transition("awaiting_approval")
                  /\ pc' = "execution"
                  /\ exc' = exc
               \/ /\ approval_answer' = "rejected"
                  /\ approved' = approved
                  /\ pc' = "except"
                  /\ IF IsValidTransition("awaiting_approval", "cancelled")
                     THEN /\ state' = "cancelled"
                          /\ history' =
                                history \o <<"awaiting_approval", "cancelled">>
                          /\ exc' = "User rejected action plan"
                     ELSE /\ Transition("awaiting_approval")
                          /\ exc' = "Invalid transition"
               \/ /\ approval_answer' = "raised"
                  /\ approved' = approved
                  /\ Transition("awaiting_approval")
                  /\ exc' = "Approval callback raised"
                  /\ pc' = "except"
    /\ UNCHANGED <<cfgVars, action_plan, current_step_idx, executed_steps,
                   error_message, self_heal_attempts, planner_calls,
                   returned_plan, plan_no, dispatched, idx, in_heal, result,
                   raised, browser, exit_code,
                   execVars, logVars, plannerVars, fileVars>>

\* agent.py:175 _execution_phase: the transition to executing that precedes
\* the loop over the plan
BeginExecution ==
    /\ pc = "execution"
    /\ IF ~IsValidTransition(state, "executing")
       THEN /\ exc' = "Invalid transition"
            /\ pc' = Handler
            /\ UNCHANGED <<state, history, idx>>
       ELSE /\ Transition("executing")
            /\ idx' = 0
            /\ pc' = "step"
            /\ exc' = exc
    /\ UNCHANGED <<cfgVars, action_plan, current_step_idx, executed_steps,
                   error_message, approval_required, self_heal_attempts,
                   approval_answer, planner_calls, returned_plan, plan_no,
                   approved, dispatched, in_heal, result, raised, browser,
                   exit_code,
                   execVars, logVars, plannerVars, fileVars>>

\* a log that keeps the latest step only
AddExecutedStepLatestOnly(steps, action, r) ==
    <<[action |-> action, status |-> r.status, note |-> r.note]>>

\* fsm.py:95-101 add_executed_step: the action and its result are appended
AddExecutedStep(steps, action, r) ==
    Append(steps, [action |-> action, status |-> r.status, note |-> r.note])

\* a check that takes every result for a success
StepFailedNever(status) == FALSE

\* agent.py:189 the failure check on the result of a step
StepFailed(status) == status = "failed"

\* agent.py:177-202 one iteration of the loop: the action is dispatched to
\* executor.execute_action (which acts on the page and the cache), its result
\* recorded; a failed result sets error_message and raises out of the phase
ExecuteStep ==
    /\ pc = "step"
    /\ idx < Len(action_plan)
    /\ current_step_idx' = idx
    /\ dispatched' =
          Append(dispatched,
                 [plan |-> plan_no, idx |-> idx, action |-> action_plan[idx + 1]])
    /\ \E ev \in Events(action_plan[idx + 1]), script_ok \in BOOLEAN :
        LET r == ExecuteAction(ui_cache, page, action_plan[idx + 1], ev,
                               script_ok, now)
            status == r.status
        IN
          /\ AnalysesPage(action_plan[idx + 1]) \/ script_ok
          /\ ui_cache' = r.cache
          /\ page' = r.page
          /\ executed_steps' =
                AddExecutedStep(executed_steps, action_plan[idx + 1], r)
          /\ IF StepFailed(status)
             THEN /\ error_message' = "Step failed"
                  /\ exc' = "Step failed"
                  /\ pc' = Handler
                  /\ idx' = idx
             ELSE /\ idx' = idx + 1
                  /\ UNCHANGED <<error_message, exc, pc>>
    /\ UNCHANGED <<state, history, cfgVars, action_plan, approval_required,
                   self_heal_attempts, approval_answer, planner_calls,
                   returned_plan, plan_no, approved, in_heal, result, raised,
                   browser, exit_code,
                   now, cache_config, logVars, plannerVars, fileVars>>

\* agent.py:204 then 91-92 (in execute) or 273 then 103 (after a recovery):
\* the loop is exhausted, transition to completed, return "success"
CompleteExecution ==
    /\ pc = "step"
    /\ idx = Len(action_plan)
    /\ IF ~IsValidTransition(state, "completed")
       THEN /\ exc' = "Invalid transition"
            /\ pc' = Handler
            /\ UNCHANGED <<state, history, result>>
       ELSE /\ Transition("completed")
            /\ result' = FormatResult("success", "completed", executed_steps,
                                      self_heal_attempts, error_message)
            /\ pc' = "finally"
            /\ exc' = exc
    /\ UNCHANGED <<cfgVars, action_plan, current_step_idx, executed_steps,
                   error_message, approval_required, self_heal_attempts,
                   approval_answer, planner_calls, returned_plan, plan_no,
                   approved, dispatched, idx, in_heal, raised, browser,
                   exit_code,
                   execVars, logVars, plannerVars, fileVars>>

\* a counter that counts every failure twice
IncrementHealAttemptTwice(attempts) == attempts + 2

\* fsm.py:117 increment_heal_attempt: the counter after the increment
IncrementHealAttempt(attempts) == attempts + 1

\* a limit check that always allows another recovery
CanHealAlways(attempts, limit) == TRUE

\* fsm.py:118 increment_heal_attempt: its result, taken on the incremented
\* counter
CanHeal(attempts, limit) == attempts < limit

\* agent.py:94-108 with fsm.py:110-118: the handler of execute(): record the
\* message, transition to error (a rejected transition raises ValueError out
\* of execute), count the heal attempt and either recover or return "error"
ExceptHandler ==
    /\ pc = "except"
    /\ error_message' = exc
    /\ IF ~IsValidTransition(state, "error")
       THEN /\ raised' = "ValueError"
            /\ pc' = "finally"
            /\ UNCHANGED <<state, history, self_heal_attempts, result>>
       ELSE /\ Transition("error")
            /\ self_heal_attempts' = IncrementHealAttempt(self_heal_attempts)
            /\ raised' = raised
            /\ IF CanHeal(IncrementHealAttempt(self_heal_attempts),
                          max_self_heal_attempts)
               THEN /\ pc' = "heal"
                    /\ result' = result
               ELSE /\ pc' = "finally"
                    /\ result' =
                          FormatResult("error", "error", executed_steps,
                                       IncrementHealAttempt(self_heal_attempts),
                                       exc)
    /\ UNCHANGED <<cfgVars, action_plan, current_step_idx, executed_steps,
                   approval_required, approval_answer, planner_calls,
                   returned_plan, plan_no, approved, dispatched, idx, in_heal,
                   exc, browser, exit_code,
                   execVars, logVars, plannerVars, fileVars>>

\* a recovery that leaves the cache as it is
HealCacheKept(cache, pg) == cache

\* agent.py:216-217 the cache entry of the current url is invalidated when
\* there is a page
HealCache(cache, pg) ==
    IF pg # NoPage THEN CacheInvalidate(cache, pg.url) ELSE cache

\* agent.py:206-267 _adaptive_self_heal up to the re-execution: transition to
\* self_healing, the invalidation and the forced-fresh page analysis, the
\* recovery generate_plan call, then the returned plan is installed, the step
\* index reset and the error cleared
SelfHeal ==
    /\ pc = "heal"
    /\ in_heal' = TRUE
    /\ IF ~IsValidTransition(state, "self_healing")
       THEN /\ pc' = "heal_except"
            /\ UNCHANGED <<state, history, planner_calls, returned_plan,
                           action_plan, plan_no, current_step_idx,
                           error_message, ui_cache, heal_analysis>>
       ELSE /\ Transition("self_healing")
            /\ \E script_ok \in BOOLEAN :
                  LET c == HealCache(ui_cache, page)
                      ctx == GetPageContext(c, page, TRUE, script_ok, now)
                  IN  /\ ui_cache' = ctx.cache
                      /\ heal_analysis' =
                            Call(c, page, TRUE, script_ok, ctx.analysis)
                      /\ planner_calls' =
                            Append(planner_calls,
                                   [user_request |-> RecoveryGoal,
                                    recovery |-> TRUE,
                                    ui_context |-> ctx.analysis.ui_text])
            /\ \/ \E p \in Plans :
                     /\ returned_plan' = p
                     /\ action_plan' = InstallRecoveryPlan(action_plan, p)
                     /\ plan_no' = plan_no + 1
                     /\ current_step_idx' = 0
                     /\ error_message' = None
                     /\ pc' = "execution"
               \/ /\ pc' = "heal_except"
                  /\ UNCHANGED <<returned_plan, action_plan, plan_no,
                                 current_step_idx, error_message>>
    /\ UNCHANGED <<cfgVars, executed_steps, approval_required,
                   self_heal_attempts, approval_answer, approved, dispatched,
                   idx, exc, result, raised, browser, exit_code,
                   page, now, cache_config, op, ctx_last, plannerVars, fileVars>>

\* agent.py:104-108 the recovery failed: both messages are recorded and
\* execute() returns "error"
HealFailed ==
    /\ pc = "heal_except"
    /\ error_message' = "Original and recovery error"
    /\ result' = FormatResult("error", state, executed_steps,
                              self_heal_attempts,
                              "Original and recovery error")
    /\ pc' = "finally"
    /\ UNCHANGED <<state, history, cfgVars, action_plan, current_step_idx,
                   executed_steps, approval_required, self_heal_attempts,
                   approval_answer, planner_calls, returned_plan, plan_no,
                   approved, dispatched, idx, in_heal, exc, raised, browser,
                   exit_code,
                   execVars, logVars, plannerVars, fileVars>>

\* agent.py:110-111 with executor.py:178-187: the finally clause closes the
\* browser; execute() has then returned its result or raised
Finally ==
    /\ pc = "finally"
    /\ browser' = IF browser = "started" THEN "closed" ELSE browser
    /\ pc' = "done"
    /\ UNCHANGED <<state, history, cfgVars, action_plan, current_step_idx,
                   executed_steps, error_message, approval_required,
                   self_heal_attempts, approval_answer, planner_calls,
                   returned_plan, plan_no, approved, dispatched, idx, in_heal,
                   exc, result, raised, exit_code,
                   execVars, logVars, plannerVars, fileVars>>

\* main.py:153-168 main_async: exit 0 for a "success" result, 1 for any other
\* result and for an exception raised by execute()
MainExit ==
    /\ pc = "done"
    /\ exit_code' = IF raised = None /\ result.status = "success" THEN 0 ELSE 1
    /\ pc' = "exited"
    /\ UNCHANGED <<state, history, cfgVars, action_plan, current_step_idx,
                   executed_steps, error_message, approval_required,
                   self_heal_attempts, approval_answer, planner_calls,
                   returned_plan, plan_no, approved, dispatched, idx, in_heal,
                   exc, result, raised, browser,
                   execVars, logVars, plannerVars, fileVars>>

Next ==
    \/ SetApprovalCallback
    \/ Execute
    \/ StartBrowser
    \/ PlanPhase
    \/ ApprovalPhase
    \/ BeginExecution
    \/ ExecuteStep
    \/ CompleteExecution
    \/ ExceptHandler
    \/ SelfHeal
    \/ HealFailed
    \/ Finally
    \/ MainExit

Spec == Init /\ [][Next]_vars

TypeOK ==
    /\ state \in AgentState
    /\ pc \in {"ready", "start", "plan", "approval", "execution", "step",
               "except", "heal", "heal_except", "finally", "done", "exited"}
    /\ self_heal_attempts \in Nat
    /\ current_step_idx \in Nat

\* ------------------------------------------------- the UI cache on its own

\* an agent that stays idle, constructed with the defaults (agent.py:31,
\* fsm.py:45)
AgentIdle ==
    /\ AgentInit
    /\ max_self_heal_attempts = DefaultMaxSelfHealAttempts
    /\ require_approval = TRUE

\* the record of a cache operation; n alternates so that two equal
\* operations in a row are two steps
CacheOp(kind, url, ui_hash, hit, age) ==
    [kind |-> kind, n |-> 1 - op.n, url |-> url, hash |-> ui_hash,
     hit |-> hit, age |-> age]

\* a UICache that starts empty, with a configuration whose max_entries is
\* small enough to be reached (config.py:37-47)
CacheInit ==
    /\ AgentIdle
    /\ ui_cache = EmptyCache
    /\ page = NoPage
    /\ now = 0
    /\ cache_config \in [max_entries : 1..MaxEntriesLimit,
                         max_age_hours : {DefaultMaxAgeHours}]
    /\ LogInit
    /\ PlannerIdle
    /\ FileIdle

\* executor.py:51-62 a call of UICache.get
CacheGetOp ==
    /\ \E u \in PageUrls, text \in Texts :
          LET r == CacheGet(ui_cache, u, Hash(text), now)
              k == NormalizeUrl(u)
          IN  /\ r.hit => ui_cache[k].hit_count < MaxHits
              /\ ui_cache' = r.cache
              /\ op' = CacheOp("get", u, Hash(text), r.hit,
                               IF r.hit THEN now - ui_cache[k].timestamp
                                        ELSE 0)
    /\ UNCHANGED <<agentVars, page, now, cache_config, ctx_last, heal_analysis, plannerVars, fileVars>>

\* executor.py:64-76 a call of UICache.set
CacheSetOp ==
    /\ \E u \in PageUrls, text \in Texts :
          /\ ui_cache' =
                CacheSet(ui_cache, u, Hash(text),
                         BuildUiAnalysis([url |-> u, text |-> text, elements |-> "E1"]), now)
          /\ op' = CacheOp("set", u, Hash(text), FALSE, 0)
    /\ UNCHANGED <<agentVars, page, now, cache_config, ctx_last, heal_analysis, plannerVars, fileVars>>

\* executor.py:78-83 a call of UICache.invalidate
CacheInvalidateOp ==
    /\ \E u \in PageUrls :
          /\ ui_cache' = CacheInvalidate(ui_cache, u)
          /\ op' = CacheOp("invalidate", u, Hash(""), FALSE, 0)
    /\ UNCHANGED <<agentVars, page, now, cache_config, ctx_last, heal_analysis, plannerVars, fileVars>>

\* time passes (datetime.now() grows)
Tick ==
    /\ now < MaxTicks * ClockStep
    /\ now' = now + ClockStep
    /\ UNCHANGED <<agentVars, ui_cache, page, cache_config, logVars,
                   plannerVars, fileVars>>

CacheNext ==
    \/ CacheGetOp
    \/ CacheSetOp
    \/ CacheInvalidateOp
    \/ Tick

CacheSpec == CacheInit /\ [][CacheNext]_vars

\* ------------------------------------- the response text and its parsing

\* the text of a response is a sequence of pieces: the characters JSON
\* looks at, the space, and words free of them
DQ == "\""

SQ == "'"

Punctuation == {"[", "]", "{", "}", ",", ":"}

\* the string bodies the oracle writes as the value of "text": a word, a
\* word with an apostrophe, a text that holds a comma before a brace
StringBody(c) ==
    CASE c = "plain" -> <<"shoes">>
      [] c = "apostrophe" -> <<"men", SQ, "s">>
      [] c = "comma_brace" -> <<"a", ",", "}">>

\* the shapes of the responses: an array of n objects {"action": "type",
\* "text": body}, its strings quoted with quote, with or without a comma
\* after the last member of each object and after the last object, with or
\* without spaces after commas and colons, with or without prose around the
\* array, with or without the colon of the first member; an apostrophe
\* inside a single-quoted string is left out (it ends the string)
ResponseShapes ==
    {d \in [n : 1..MaxOracleLen, quote : {DQ, SQ},
            body : {"plain", "apostrophe", "comma_brace"},
            comma_obj : BOOLEAN, comma_arr : BOOLEAN, space : BOOLEAN,
            prose : BOOLEAN, colon : BOOLEAN] :
        ~(d.quote = SQ /\ d.body = "apostrophe")}

Gap(d) == IF d.space THEN <<" ">> ELSE <<>>

Quoted(d, body) == <<d.quote>> \o body \o <<d.quote>>

RenderObject(d) ==
    <<"{">> \o Quoted(d, <<"action">>)
    \o (IF d.colon THEN <<":">> ELSE <<>>) \o Gap(d)
    \o Quoted(d, <<"type">>) \o <<",">> \o Gap(d)
    \o Quoted(d, <<"text">>) \o <<":">> \o Gap(d)
    \o Quoted(d, StringBody(d.body))
    \o (IF d.comma_obj THEN <<",">> \o Gap(d) ELSE <<>>) \o <<"}">>

RECURSIVE RenderObjects(_, _)
RenderObjects(d, n) ==
    IF n = 1 THEN RenderObject(d)
    ELSE RenderObjects(d, n - 1) \o <<",">> \o Gap(d) \o RenderObject(d)

\* the text of the response of shape d
RenderText(d) ==
    (IF d.prose THEN <<"Here", " ">> ELSE <<>>)
    \o <<"[">> \o RenderObjects(d, d.n)
    \o (IF d.comma_arr THEN <<",">> \o Gap(d) ELSE <<>>) \o <<"]">>
    \o (IF d.prose THEN <<" ", "Done">> ELSE <<>>)

\* the oracle responses given to the extraction
ResponseTexts == {[shape |-> d, text |-> RenderText(d)] : d \in ResponseShapes}

\* json.loads, the scanner: spaces between tokens are skipped, a double
\* quote opens a string that runs to the next double quote, the six
\* punctuation characters are tokens, anything else is an error
RECURSIVE Scan(_, _, _)
Scan(t, i, acc) ==
    IF i > Len(t) THEN [ok |-> TRUE, tokens |-> acc]
    ELSE IF t[i] = " " THEN Scan(t, i + 1, acc)
    ELSE IF t[i] = DQ
    THEN LET close == {j \in (i + 1)..Len(t) : t[j] = DQ}
         IN  IF close = {} THEN [ok |-> FALSE, tokens |-> <<>>]
             ELSE Scan(t, Min(close) + 1,
                       Append(acc, [kind |-> "string",
                                    val |-> SubSeq(t, i + 1, Min(close) - 1)]))
    ELSE IF t[i] \in Punctuation
    THEN Scan(t, i + 1, Append(acc, [kind |-> t[i], val |-> <<>>]))
    ELSE [ok |-> FALSE, tokens |-> <<>>]

\* json.loads on the tokens between the braces of an object: members
\* string : string separated by commas, no comma after the last
ParseMembers(m) ==
    IF m = <<>> THEN [ok |-> TRUE, val |-> <<>>]
    ELSE IF /\ (Len(m) + 1) % 4 = 0
            /\ \A p \in 1..Len(m) :
                  m[p].kind = CASE p % 4 = 1 -> "string"
                                [] p % 4 = 2 -> ":"
                                [] p % 4 = 3 -> "string"
                                [] OTHER -> ","
    THEN [ok |-> TRUE,
          val |-> [q \in 1..((Len(m) + 1) \div 4) |->
                      <<m[4 * q - 3].val, m[4 * q - 1].val>>]]
    ELSE [ok |-> FALSE, val |-> <<>>]

\* json.loads on the tokens after "[" or after the comma that follows an
\* object: an object, then "]" at the end of the text or a comma and the
\* next object
RECURSIVE ParseObjects(_, _, _)
ParseObjects(l, i, acc) ==
    LET close == {j \in (i + 1)..Len(l) : l[j].kind = "}"}
        fail == [ok |-> FALSE, val |-> <<>>]
    IN  IF i > Len(l) \/ l[i].kind # "{" \/ close = {} THEN fail
        ELSE LET j == Min(close)
                 obj == ParseMembers(SubSeq(l, i + 1, j - 1))
             IN  IF ~obj.ok \/ j + 1 > Len(l) THEN fail
                 ELSE IF l[j + 1].kind = "]"
                 THEN IF j + 1 = Len(l)
                      THEN [ok |-> TRUE, val |-> Append(acc, obj.val)]
                      ELSE fail
                 ELSE IF l[j + 1].kind = ","
                 THEN ParseObjects(l, j + 2, Append(acc, obj.val))
                 ELSE fail

\* json.loads on a text that is to hold an array of objects of strings;
\* ok is FALSE where json.loads raises JSONDecodeError
JsonLoads(t) ==
    LET s == Scan(t, 1, <<>>)
    IN  IF ~s.ok \/ s.tokens = <<>> \/ s.tokens[1].kind # "[" 
        THEN [ok |-> FALSE, val |-> <<>>]
        ELSE IF Len(s.tokens) = 2 /\ s.tokens[2].kind = "]"
        THEN [ok |-> TRUE, val |-> <<>>]
        ELSE ParseObjects(s.tokens, 2, <<>>)

\* planner.py:400 str.replace("'", '"')
ReplaceQuotes(t) == [i \in 1..Len(t) |-> IF t[i] = SQ THEN DQ ELSE t[i]]

\* planner.py:401-402 re.sub(r',\s*X', 'X'): every comma that is followed,
\* after spaces only, by the bracket X goes, with those spaces
StripCommasBefore(t, bracket) ==
    LET matched(i) ==
            /\ t[i] = ","
            /\ \E j \in (i + 1)..Len(t) :
                  /\ t[j] = bracket
                  /\ \A m \in (i + 1)..(j - 1) : t[m] = " "
        gone == {k \in 1..Len(t) :
                    \/ matched(k)
                    \/ /\ t[k] = " "
                       /\ \E i \in 1..(k - 1) :
                             /\ matched(i)
                             /\ \A m \in (i + 1)..k : t[m] = " "}
        kept == (1..Len(t)) \ gone
    IN  [n \in 1..Cardinality(kept) |->
            t[CHOOSE k \in kept : Cardinality({m \in kept : m <= k}) = n]]

\* planner.py:399-402 the two repairs, in the order of the code
Repair(t) == StripCommasBefore(StripCommasBefore(ReplaceQuotes(t), "}"), "]")

\* an extraction that parses once
ExtractJsonArrayStrict(text) ==
    LET open == {i \in 1..Len(text) : text[i] = "["}
        close == {i \in 1..Len(text) : text[i] = "]"}
    IN  IF open = {} \/ close = {}
        THEN [ok |-> FALSE, error |-> "ValueError", val |-> <<>>,
              repaired |-> FALSE]
        ELSE LET first == JsonLoads(SubSeq(text, Min(open), Max(close)))
             IN  [ok |-> first.ok, error |-> "JSONDecodeError",
                  val |-> first.val, repaired |-> FALSE]

\* planner.py:387-406 _extract_json_array: the text from the first "[" to
\* the last "]" is parsed; if that fails it is repaired and parsed once
\* more; error is what is raised when ok is FALSE
ExtractJsonArray(text) ==
    LET open == {i \in 1..Len(text) : text[i] = "["}
        close == {i \in 1..Len(text) : text[i] = "]"}
    IN  IF open = {} \/ close = {}
        THEN [ok |-> FALSE, error |-> "ValueError", val |-> <<>>,
              repaired |-> FALSE]
        ELSE LET json_str == SubSeq(text, Min(open), Max(close))
                 first == JsonLoads(json_str)
                 second == JsonLoads(Repair(json_str))
             IN  IF first.ok
                 THEN [ok |-> TRUE, error |-> "JSONDecodeError",
                       val |-> first.val, repaired |-> FALSE]
                 ELSE [ok |-> second.ok, error |-> "JSONDecodeError",
                       val |-> second.val, repaired |-> TRUE]

\* one attempt of generate_plan whose request has been answered with a
\* text (planner.py:195-198, 350-385)
ParserInit ==
    /\ AgentIdle
    /\ ui_cache = EmptyCache
    /\ page = NoPage
    /\ now = 0
    /\ cache_config = DefaultCacheConfig
    /\ LogInit
    /\ FileIdle
    /\ gp_pc = "received"
    /\ gp_attempt = 0
    /\ gp_requests = 1
    /\ gp_failed = 0
    /\ gp_output \in ResponseTexts
    /\ gp_result = <<>>

\* planner.py:385 with 209-222: the array is extracted from the text; a
\* value goes on to validation within the attempt, an error is caught by
\* generate_plan, which counts the attempt as failed and, attempts
\* remaining, sends a further request
ExtractOp ==
    /\ gp_pc = "received"
    /\ LET r == ExtractJsonArray(gp_output.text)
       IN  IF r.ok
           THEN /\ gp_pc' = IF r.repaired THEN "repaired" ELSE "parsed"
                /\ gp_result' = r.val
                /\ gp_failed' = gp_failed
           ELSE /\ gp_pc' = "retry"
                /\ gp_result' = gp_result
                /\ gp_failed' = gp_failed + 1
    /\ UNCHANGED <<agentVars, execVars, logVars, fileVars, gp_attempt,
                   gp_requests, gp_output>>

ParserNext == ExtractOp

ParserSpec == ParserInit /\ [][ParserNext]_vars

\* ------------------------------------------- the cache file on its own

\* executor.py:29-42 a UICache constructed over the file an earlier process
\* left: the map in memory is the map of the file
FileInit ==
    /\ AgentIdle
    /\ ui_cache \in InitialCaches
    /\ page = NoPage
    /\ now = 0
    /\ cache_config = DefaultCacheConfig
    /\ LogInit
    /\ PlannerIdle
    /\ cache_file = FileHolding(ui_cache)
    /\ save_pc = "idle"
    /\ peer_cache = EmptyCache

\* executor.py:64-75 set up to its call of save
FileSetOp ==
    /\ save_pc = "idle"
    /\ \E u \in PageUrls, text \in Texts :
          ui_cache' =
              CacheSet(ui_cache, u, Hash(text),
                       BuildUiAnalysis([url |-> u, text |-> text, elements |-> "E1"]), now)
    /\ save_pc' = "save"
    /\ UNCHANGED <<agentVars, page, now, cache_config, logVars, plannerVars,
                   cache_file, peer_cache>>

\* executor.py:78-82 invalidate up to its call of save, made when the key
\* is there
FileInvalidateOp ==
    /\ save_pc = "idle"
    /\ \E u \in PageUrls :
          /\ NormalizeUrl(u) \in DOMAIN ui_cache
          /\ ui_cache' = CacheInvalidate(ui_cache, u)
    /\ save_pc' = "save"
    /\ UNCHANGED <<agentVars, page, now, cache_config, logVars, plannerVars,
                   cache_file, peer_cache>>

\* executor.py:51-62 get called by get_page_context (executor.py:272): a
\* hit counts and stamps the entry in memory; get makes no call of save
FileGetOp ==
    /\ save_pc = "idle"
    /\ \E u \in PageUrls, text \in Texts :
          LET r == CacheGet(ui_cache, u, Hash(text), now)
          IN  /\ r.hit
              /\ ui_cache[NormalizeUrl(u)].hit_count < MaxHits
              /\ ui_cache' = r.cache
    /\ UNCHANGED <<agentVars, page, now, cache_config, logVars, plannerVars,
                   fileVars>>

\* agent.py:110-111 the task is over and executor.stop() runs;
\* executor.py:178-187 stop closes the browser and playwright and makes no
\* call of save
StopExecutor ==
    /\ save_pc = "idle"
    /\ save_pc' = "finished"
    /\ UNCHANGED <<agentVars, execVars, logVars, plannerVars, cache_file,
                   peer_cache>>

\* executor.py:46 open(cache_file, 'w'): the file at the cache path is
\* truncated; an open that fails is caught at executor.py:48 and the save
\* is over with the file as it was
SaveOpen ==
    /\ save_pc = "save"
    /\ \/ /\ cache_file' = [content |-> "empty", map |-> ui_cache,
                             before |-> cache_file.map]
          /\ save_pc' = "dump"
       \/ /\ cache_file' = cache_file
          /\ save_pc' = "idle"
    /\ UNCHANGED <<agentVars, execVars, logVars, plannerVars, peer_cache>>

\* executor.py:47 json.dump writes the text of the map piece by piece: part
\* of it has reached the file
SaveDump ==
    /\ save_pc = "dump"
    /\ cache_file' = [cache_file EXCEPT !.content = "partial"]
    /\ save_pc' = "close"
    /\ UNCHANGED <<agentVars, execVars, logVars, plannerVars, peer_cache>>

\* executor.py:46-47 the with block is left: the rest of the text is
\* flushed and the file closed
SaveClose ==
    /\ save_pc = "close"
    /\ cache_file' = FileHolding(cache_file.map)
    /\ save_pc' = "idle"
    /\ UNCHANGED <<agentVars, execVars, logVars, plannerVars, peer_cache>>

\* the process stops (it is killed or the machine goes down) wherever it
\* is; the file stays as it is
Stop ==
    /\ save_pc # "stopped"
    /\ save_pc' = "stopped"
    /\ UNCHANGED <<agentVars, execVars, logVars, plannerVars, cache_file,
                   peer_cache>>

\* executor.py:29-42 a new process constructs its UICache: load reads the
\* file; a file that is not the whole text of a map fails to parse and
\* leaves the cache empty
Load ==
    /\ save_pc \in {"stopped", "finished"}
    /\ ui_cache' = IF cache_file.content = "complete" THEN cache_file.map
                   ELSE EmptyCache
    /\ save_pc' = "idle"
    /\ UNCHANGED <<agentVars, page, now, cache_config, logVars, plannerVars,
                   cache_file, peer_cache>>

FileNext ==
    \/ FileSetOp
    \/ FileInvalidateOp
    \/ FileGetOp
    \/ StopExecutor
    \/ SaveOpen
    \/ SaveDump
    \/ SaveClose
    \/ Stop
    \/ Load

FileSpec == FileInit /\ [][FileNext]_vars

\* ------------------------------------- the execution context on its own

\* an ExecutionContext after construction (fsm.py:30-45), its transitions
\* called by a caller of any kind
FsmInit ==
    /\ AgentIdle
    /\ ui_cache = EmptyCache
    /\ page = NoPage
    /\ now = 0
    /\ cache_config = DefaultCacheConfig
    /\ LogInit
    /\ PlannerIdle
    /\ FileIdle

\* fsm.py:47-68 transition(new_state, log_callback) with any target, with
\* or without a callback: a rejected target raises before anything is
\* assigned; an accepted one is assigned and then given to the callback
TransitionOp ==
    /\ \E target \in AgentState, with_callback \in BOOLEAN :
          IF ~IsValidTransition(state, target)
          THEN /\ op' = [kind |-> "transition", n |-> 1 - op.n,
                         target |-> target, raised |-> TRUE,
                         logged |-> FALSE]
               /\ UNCHANGED <<state, history>>
          ELSE /\ Len(history) <= MaxTransitions
               /\ Transition(target)
               /\ op' = [kind |-> "transition", n |-> 1 - op.n,
                         target |-> target, raised |-> FALSE,
                         logged |-> with_callback]
    /\ UNCHANGED <<pc, cfgVars, action_plan, current_step_idx, executed_steps,
                   error_message, approval_required, self_heal_attempts,
                   approval_answer, planner_calls, returned_plan, plan_no,
                   approved, dispatched, idx, in_heal, exc, result, raised,
                   browser, exit_code,
                   execVars, ctx_last, heal_analysis, plannerVars, fileVars>>

FsmNext == TransitionOp

FsmSpec == FsmInit /\ [][FsmNext]_vars

\* ------------------------------------------ the cache key on its own

\* the characters urls are made of here: a letter piece with both cases,
\* and the three characters that normalization looks at
UrlAlphabet == {"Ab", "/", "?", "#"}

\* the urls given to the cache: every string of at most MaxUrlLen pieces,
\* and the urls of the pages
Urls ==
    UNION {[1..m -> UrlAlphabet] : m \in 0..MaxUrlLen} \union PageUrls

\* a UICache that starts empty; u is the url an entry will be stored under,
\* v the url it will be looked up and invalidated under
KeyInit ==
    /\ AgentIdle
    /\ ui_cache = EmptyCache
    /\ page = NoPage
    /\ now = 0
    /\ cache_config = DefaultCacheConfig
    /\ op \in [kind : {"urls"}, n : {0}, u : Urls, v : Urls]
    /\ ctx_last = NoCall
    /\ heal_analysis = NoCall
    /\ PlannerIdle
    /\ FileIdle

\* executor.py:64-76 set under u; the key is normalized once more to see
\* what _normalize_url makes of its own result
KeySetOp ==
    /\ op.kind = "urls"
    /\ ui_cache' =
          CacheSet(ui_cache, op.u, Hash("T1"),
                   BuildUiAnalysis([url |-> op.u, text |-> "T1", elements |-> "E1"]), now)
    /\ op' = [kind |-> "key_set", n |-> 0, u |-> op.u, v |-> op.v,
              key |-> NormalizeUrl(op.u),
              rekey |-> NormalizeUrl(NormalizeUrl(op.u))]
    /\ UNCHANGED <<agentVars, page, now, cache_config, ctx_last,
                   heal_analysis, plannerVars, fileVars>>

\* executor.py:51-62 get under v, with the hash that was stored
KeyGetOp ==
    /\ op.kind = "key_set"
    /\ LET r == CacheGet(ui_cache, op.v, Hash("T1"), now)
       IN  /\ ui_cache' = r.cache
           /\ op' = [kind |-> "key_get", n |-> 0, u |-> op.u, v |-> op.v,
                     key |-> op.key, rekey |-> op.rekey, hit |-> r.hit]
    /\ UNCHANGED <<agentVars, page, now, cache_config, ctx_last,
                   heal_analysis, plannerVars, fileVars>>

\* executor.py:78-83 invalidate under v
KeyInvalidateOp ==
    /\ op.kind = "key_get"
    /\ ui_cache' = CacheInvalidate(ui_cache, op.v)
    /\ op' = [op EXCEPT !.kind = "key_invalidate"]
    /\ UNCHANGED <<agentVars, page, now, cache_config, ctx_last,
                   heal_analysis, plannerVars, fileVars>>

KeyNext ==
    \/ KeySetOp
    \/ KeyGetOp
    \/ KeyInvalidateOp

KeySpec == KeyInit /\ [][KeyNext]_vars

\* ------------------------------------------------ the executor on its own

\* the record of an execute_action call: the action and what happened to
\* its handler, the status returned, whether it failed on a page-control
\* operation, whether a page primitive was called
ExecOp(action, ev, r) ==
    [kind |-> "execute", n |-> 0, action |-> action, ev |-> ev,
     status |-> r.status, page_failure |-> r.page_failure,
     primitive |-> r.primitive, note |-> r.note]

\* the hit counters stay within the explored range
HitsWithinBound(cache) == \A k \in DOMAIN cache : cache[k].hit_count <= MaxHits

\* a BrowserExecutor after construction: no page, the cache as loaded
ExecutorInit ==
    /\ AgentIdle
    /\ ui_cache \in InitialCaches
    /\ page = NoPage
    /\ now = 0
    /\ cache_config = DefaultCacheConfig
    /\ LogInit
    /\ PlannerIdle
    /\ FileIdle

\* executor.py:150-176 start(): the browser and its blank page
StartOp ==
    /\ browser = "none"
    /\ browser' = "started"
    /\ page' = BlankPage
    /\ UNCHANGED <<pc, state, history, cfgVars, action_plan, current_step_idx,
                   executed_steps, error_message, approval_required,
                   self_heal_attempts, approval_answer, planner_calls,
                   returned_plan, plan_no, approved, dispatched, idx, in_heal,
                   exc, result, raised, exit_code, ui_cache, now,
                   cache_config, logVars, plannerVars, fileVars>>

\* the site: the page shows another url or another text; the latest
\* operation is then no longer about the page shown
PageChanges ==
    /\ page # NoPage
    /\ \E pg \in Pages : pg # page /\ page' = pg
    /\ op' = [kind |-> "page", n |-> 0]
    /\ UNCHANGED <<agentVars, ui_cache, now, cache_config, ctx_last,
                   heal_analysis, plannerVars, fileVars>>

\* executor.py:404-432 a call of execute_action with any action of the
\* vocabulary or an unknown one
ExecuteActionOp ==
    /\ \E action \in valid_actions \union OtherDiscriminators,
          script_ok \in BOOLEAN :
        \E ev \in ActionEvents(action) :
          LET r == ExecuteAction(ui_cache, page, action, ev, script_ok, now)
          IN  /\ AnalysesPage(action) \/ script_ok
              /\ HitsWithinBound(r.cache)
              /\ ui_cache' = r.cache
              /\ page' = r.page
              /\ op' = ExecOp(action, ev, r)
    /\ UNCHANGED <<agentVars, now, cache_config, ctx_last, heal_analysis,
                   plannerVars, fileVars>>

ExecutorNext ==
    \/ StartOp
    \/ PageChanges
    \/ ExecuteActionOp

ExecutorSpec == ExecutorInit /\ [][ExecutorNext]_vars

\* ---------------------------------------- the page analyzer on its own

\* executor.py:189-292 a call of get_page_context
GetPageContextOp ==
    /\ \E force_fresh \in BOOLEAN, script_ok \in BOOLEAN :
          LET r == GetPageContext(ui_cache, page, force_fresh, script_ok, now)
          IN  /\ HitsWithinBound(r.cache)
              /\ ui_cache' = r.cache
              /\ ctx_last' = Call(ui_cache, page, force_fresh, script_ok,
                                  r.analysis)
    /\ UNCHANGED <<agentVars, page, now, cache_config, op, heal_analysis,
                   plannerVars, fileVars>>

\* executor.py:427 and agent.py:216-217 the cache entry of the url of the
\* page is invalidated (after a page error, before a recovery)
InvalidatePageOp ==
    /\ page # NoPage
    /\ NormalizeUrl(page.url) \in DOMAIN ui_cache
    /\ ui_cache' = CacheInvalidate(ui_cache, page.url)
    /\ ctx_last' = [ctx_last EXCEPT !.invalidated =
                       @ \/ (ctx_last.key = NormalizeUrl(page.url))]
    /\ UNCHANGED <<agentVars, page, now, cache_config, op, heal_analysis,
                   plannerVars, fileVars>>

\* the site renders the page anew: its inputs and buttons get other ids and
\* names while the url and the visible body text stay as they are
Rerender ==
    /\ page.text \in Texts
    /\ \E e \in Elements : e # page.elements
                            /\ page' = [page EXCEPT !.elements = e]
    /\ UNCHANGED <<agentVars, ui_cache, now, cache_config, logVars,
                   plannerVars, fileVars>>

AnalyzerNext ==
    \/ StartOp
    \/ PageChanges
    \/ Rerender
    \/ GetPageContextOp
    \/ InvalidatePageOp

AnalyzerSpec == ExecutorInit /\ [][AnalyzerNext]_vars

\* ------------------------------------------------ the planner on its own

\* values of the "action" key in the elements of an oracle response: missing
\* (""), outside the vocabulary, and vocabulary types with and without
\* required fields
OracleActions == {"", "fly", "navigate", "type", "click", "wait", "scroll"}

\* an element of the array that is not a JSON object (a number, a string)
NotADict == [action |-> "not a dict", url |-> "", selector |-> ""]

\* the elements of an oracle response; "" stands for a missing (or falsy)
\* value of a key
OracleElements ==
    {NotADict} \union
    [action : OracleActions, url : {"", "u"}, selector : {"", "s"}]

OracleArrays == UNION {[1..n -> OracleElements] : n \in 0..MaxOracleLen}

\* planner.py:350-406 what _call_ollama gives: the request fails, the
\* response holds no array, the array does not parse even after the repair,
\* or the parsed array
OracleOutputs ==
    {[kind |-> k, value |-> <<>>] :
        k \in {"transport_error", "no_array", "parse_error"}}
    \union {[kind |-> "array", value |-> a] : a \in OracleArrays}

\* a validation that forgets the selector of wait
ValidatePlanNoWait(plan) ==
    /\ plan # <<>>
    /\ \A i \in 1..Len(plan) :
          /\ plan[i] # NotADict
          /\ plan[i].action # ""
          /\ plan[i].action \in valid_actions
          /\ plan[i].action = "navigate" => plan[i].url # ""
          /\ plan[i].action = "type" => plan[i].selector # ""
          /\ plan[i].action = "click" => plan[i].selector # ""

\* planner.py:408-445 _validate_plan: TRUE when it raises nothing
ValidatePlan(plan) ==
    /\ plan # <<>>
    /\ \A i \in 1..Len(plan) :
          /\ plan[i] # NotADict
          /\ plan[i].action # ""
          /\ plan[i].action \in valid_actions
          /\ plan[i].action = "navigate" => plan[i].url # ""
          /\ plan[i].action = "type" => plan[i].selector # ""
          /\ plan[i].action = "click" => plan[i].selector # ""
          /\ plan[i].action = "wait" => plan[i].selector # ""

\* a retry condition that gives up one attempt early
RetryAllowedOffByOne(attempt) == attempt < max_retries - 2

\* planner.py:210 and 218 the condition under which a failed attempt is
\* followed by another one
RetryAllowed(attempt) == attempt < max_retries - 1

\* a planner that has made no call, next to an idle agent and executor
PlannerInit ==
    /\ AgentIdle
    /\ ui_cache = EmptyCache
    /\ page = NoPage
    /\ now = 0
    /\ cache_config = DefaultCacheConfig
    /\ LogInit
    /\ PlannerIdle
    /\ FileIdle

\* planner.py:178-193 generate_plan is called: the prompt is built and the
\* loop entered
GeneratePlanCall ==
    /\ gp_pc = "idle"
    /\ gp_pc' = "attempt"
    /\ gp_attempt' = 0
    /\ gp_requests' = 0
    /\ gp_failed' = 0
    /\ UNCHANGED <<agentVars, execVars, logVars, gp_output, gp_result,
                   fileVars>>

\* planner.py:195-224 one iteration of the loop: a request to the oracle;
\* a response that parses and validates is returned; after a failure the
\* loop goes on while a retry is allowed, else the exception is raised (an
\* exhausted loop raises RuntimeError); a rejected response is dropped, only
\* its kind is kept
OracleAttempt ==
    /\ gp_pc = "attempt"
    /\ gp_attempt < max_retries
    /\ gp_requests' = gp_requests + 1
    /\ \E out \in OracleOutputs :
          /\ IF out.kind = "array" /\ ValidatePlan(out.value)
             THEN /\ gp_output' = out
                  /\ gp_result' = out.value
                  /\ gp_pc' = "returned"
                  /\ UNCHANGED <<gp_attempt, gp_failed>>
             ELSE /\ gp_output' = [kind |-> out.kind, value |-> <<>>]
                  /\ gp_failed' = gp_failed + 1
                  /\ gp_result' = gp_result
                  /\ IF RetryAllowed(gp_attempt) /\ gp_attempt + 1 < max_retries
                     THEN /\ gp_attempt' = gp_attempt + 1
                          /\ gp_pc' = gp_pc
                     ELSE /\ gp_attempt' = gp_attempt
                          /\ gp_pc' = "raised"
    /\ UNCHANGED <<agentVars, execVars, logVars, fileVars>>

PlannerNext ==
    \/ GeneratePlanCall
    \/ OracleAttempt

PlannerSpec == PlannerInit /\ [][PlannerNext]_vars

\* ------------------------------------------------- find_best (FindBestSpec)

\* the largest number of items an extraction returns
MaxItems == 2

\* value of a decimal digit
DigitVal ==
    [c \in {"0", "1", "2", "5", "9"} |->
        CASE c = "0" -> 0 [] c = "1" -> 1 [] c = "2" -> 2 [] c = "5" -> 5
          [] OTHER -> 9]

IsDigit(c) == c \in DOMAIN DigitVal

\* executor.py:611-621 the price of an extracted item: None when no price
\* element is found, else the stripped inner text of the element, which may
\* be empty; texts are sequences of characters
NoPrice == <<"None">>

PriceTexts ==
    {<<>>, <<"x">>, <<"9">>, <<"x", "9">>, <<"1", "2">>, <<"1", ",", "2">>,
     <<"9", ".", "5">>, <<".", "5">>, <<"1", "0", ".", "x">>}

\* executor.py:623-633 the link of an extracted item: None when the item
\* has no anchor or the anchor no href
NoLink == <<>>

Links == {NoLink, <<"https://x.com", "/", "b">>}

\* executor.py:635-640 the records _extract_items returns
Items == [price : PriceTexts \union {NoPrice}, link : Links]

ItemLists == UNION {[1..n -> Items] : n \in 0..MaxItems}

\* the number written by a sequence of digits
RECURSIVE Number(_)
Number(ds) ==
    IF ds = <<>> THEN 0
    ELSE Number(SubSeq(ds, 1, Len(ds) - 1)) * 10 + DigitVal[ds[Len(ds)]]

\* the end of the longest run of digits of s that starts at i (i - 1 when
\* s has no digit at i)
DigitRunEnd(s, i) ==
    Max({i - 1} \union {e \in i..Len(s) : \A j \in i..e : IsDigit(s[j])})

Infinity == [inf |-> TRUE, whole |-> 0, frac |-> <<>>]

\* executor.py:669-673 _parse_price: the commas are removed, then the first
\* match of [\d,]+\.?\d* is converted with float(): the first run of
\* digits, and the digits after a "." that follows it directly; no digit
\* at all gives float('inf')
ParsePrice(price_str) ==
    LET s == SelectSeq(price_str, LAMBDA c : c # ",")
        at == {i \in 1..Len(s) : IsDigit(s[i])}
    IN  IF at = {} THEN Infinity
        ELSE LET i == Min(at)
                 e == DigitRunEnd(s, i)
                 dot == e + 1 <= Len(s) /\ s[e + 1] = "."
                 f == IF dot THEN DigitRunEnd(s, e + 2) ELSE e
             IN  [inf |-> FALSE, whole |-> Number(SubSeq(s, i, e)),
                  frac |-> IF dot THEN SubSeq(s, e + 2, f) ELSE <<>>]

\* digits ds followed by zeros up to length n
RECURSIVE PadZeros(_, _)
PadZeros(ds, n) == IF Len(ds) >= n THEN ds ELSE PadZeros(Append(ds, "0"), n)

\* the order of floats on parsed prices
PriceLess(a, b) ==
    IF a.inf THEN FALSE
    ELSE IF b.inf THEN TRUE
    ELSE LET n == Max({Len(a.frac), Len(b.frac)})
         IN  \/ a.whole < b.whole
             \/ /\ a.whole = b.whole
                /\ Number(PadZeros(a.frac, n)) < Number(PadZeros(b.frac, n))

\* executor.py:654 i.get('price') is truthy: a price text that is not empty
HasPrice(item) == item.price # NoPrice /\ item.price # <<>>

\* a min that returns the last of the items of lowest price
CheapestLast(items) ==
    LET priced == {i \in 1..Len(items) : HasPrice(items[i])}
    IN  IF priced = {} THEN 0
        ELSE CHOOSE i \in priced :
                \A j \in priced :
                   /\ ~PriceLess(ParsePrice(items[j].price),
                                 ParsePrice(items[i].price))
                   /\ j > i => PriceLess(ParsePrice(items[i].price),
                                         ParsePrice(items[j].price))

\* executor.py:654-656 min(items_with_price, key=_parse_price): the index of
\* the first of the priced items of lowest parsed price, 0 (best stays
\* None) when no item is priced
Cheapest(items) ==
    LET priced == {i \in 1..Len(items) : HasPrice(items[i])}
    IN  IF priced = {} THEN 0
        ELSE CHOOSE i \in priced :
                \A j \in priced :
                   /\ ~PriceLess(ParsePrice(items[j].price),
                                 ParsePrice(items[i].price))
                   /\ j < i => PriceLess(ParsePrice(items[i].price),
                                         ParsePrice(items[j].price))

\* executor.py:641-667 _action_find_best run by execute_action
\* (executor.py:404-432) on the extracted items: best is chosen for the
\* criteria "cheapest" only; without items, without a best or without a
\* link it fails; page.goto(best['link']) then succeeds or raises, and the
\* exception is turned into a failed result by execute_action
FindBest(items, criteria, goto_ok) ==
    LET best == IF criteria = "cheapest" THEN Cheapest(items) ELSE 0
    IN  IF items = <<>>
        THEN [status |-> "failed", error |-> "No items found", item |-> 0,
              goto |-> NoLink]
        ELSE IF best = 0 \/ items[best].link = NoLink
        THEN [status |-> "failed", error |-> "Could not find suitable item",
              item |-> 0, goto |-> NoLink]
        ELSE IF ~goto_ok
        THEN [status |-> "failed", error |-> "page", item |-> 0,
              goto |-> NoLink]
        ELSE [status |-> "success", error |-> "", item |-> best,
              goto |-> items[best].link]

\* the results page with the items an extraction on it returns
FindBestInit ==
    /\ AgentIdle
    /\ ui_cache = EmptyCache
    /\ page = TargetPage
    /\ now = 0
    /\ cache_config = DefaultCacheConfig
    /\ op \in [kind : {"extracted"}, n : {0}, items : ItemLists]
    /\ ctx_last = NoCall
    /\ heal_analysis = NoCall
    /\ PlannerIdle
    /\ FileIdle

\* executor.py:641-667 a find_best action on the page
FindBestOp ==
    /\ op.kind = "extracted"
    /\ \E criteria \in {"cheapest", "highest_rated"}, goto_ok \in BOOLEAN :
          LET r == FindBest(op.items, criteria, goto_ok)
          IN  /\ op' = [kind |-> "find_best", n |-> 0, items |-> op.items,
                        criteria |-> criteria, goto_ok |-> goto_ok,
                        result |-> r]
              /\ page' = IF r.status = "success"
                         THEN [url |-> r.goto, text |-> "T2",
                               elements |-> "E1"]
                         ELSE page
    /\ UNCHANGED <<agentVars, ui_cache, now, cache_config, ctx_last,
                   heal_analysis, plannerVars, fileVars>>

FindBestSpec == FindBestInit /\ [][FindBestOp]_vars

\* ----------------------------------- recommended selectors (SelectorSpec)

\* the largest number of inputs of a page
MaxInputs == 2

\* names, ids and goals are sequences of pieces; no word that is looked
\* for is split over two pieces; str.lower() piece by piece
Lower(piece) ==
    CASE piece \in {"Search", "SEARCH", "search"} -> "search"
      [] piece = "Buy" -> "buy"
      [] piece = "Find" -> "find"
      [] OTHER -> piece

\* 'search' in s.lower()
ContainsSearch(s) == \E i \in 1..Len(s) : Lower(s[i]) = "search"

\* executor.py:206-224 describeElement: name is el.name or '', id is
\* '#' + el.id or '', type is el.type or ''
InputNames == {<<>>, <<"q">>, <<"Search">>}

InputIds == {<<>>, <<"#", "main">>, <<"#", "SEARCH", "box">>}

InputTypes == {"text", "search"}

\* executor.py:223 selector: id || [name="..."] || classes || tag
SelectorOf(name, id) ==
    IF id # <<>> THEN id
    ELSE IF name # <<>> THEN <<"[name=">> \o name \o <<"]">>
    ELSE <<"input">>

Inputs ==
    {[name |-> nm, id |-> i, type |-> t, selector |-> SelectorOf(nm, i)] :
        nm \in InputNames, i \in InputIds, t \in InputTypes}

InputLists == UNION {[1..n -> Inputs] : n \in 0..MaxInputs}

\* executor.py:384 the default pattern
DefaultSearchSelector ==
    <<"input[type='search'], input[name*='search'], input[name='q']">>

\* executor.py:376-384 _recommend_search_selector: one pass over the inputs;
\* the first input that has 'search' in its name or id, or is of type
\* search, is the one returned
RecommendSearchSelector(inputs) ==
    LET found == {i \in 1..Len(inputs) :
                     \/ ContainsSearch(inputs[i].name)
                     \/ ContainsSearch(inputs[i].id)
                     \/ inputs[i].type = "search"}
    IN  IF found = {} THEN DefaultSearchSelector
        ELSE inputs[Min(found)].selector

\* the inputs the in-page script found on the page
SelectorInit ==
    /\ AgentIdle
    /\ ui_cache = EmptyCache
    /\ page = TargetPage
    /\ now = 0
    /\ cache_config = DefaultCacheConfig
    /\ op \in [kind : {"inputs"}, n : {0}, inputs : InputLists]
    /\ ctx_last = NoCall
    /\ heal_analysis = NoCall
    /\ PlannerIdle
    /\ FileIdle

\* executor.py:351 _build_ui_analysis renders the recommendation
RecommendOp ==
    /\ op.kind = "inputs"
    /\ op' = [kind |-> "recommended", n |-> 0, inputs |-> op.inputs,
              selector |-> RecommendSearchSelector(op.inputs)]
    /\ UNCHANGED <<agentVars, execVars, ctx_last, heal_analysis,
                   plannerVars, fileVars>>

SelectorSpec == SelectorInit /\ [][RecommendOp]_vars

\* ------------------------------------- recovery prompt (RecoverySpec)

\* the largest number of executed steps handed to the recovery prompt
MaxSteps == 2

\* goals of tasks, as the user typed them
RecoveryGoals ==
    {<<"Buy", " ", "cheapest", " ", "mouse">>, <<"Find", " ", "python">>,
     <<"open", " ", "inbox">>}

\* word in goal.lower()
GoalHas(goal, word) == \E i \in 1..Len(goal) : Lower(goal[i]) = word

\* fsm.py:95-101 the executed steps: the action with its result; a step
\* that failed is recorded before the failure is raised (agent.py:186-194)
StepRecords ==
    [action : {"navigate", "type", "find_best", "add_to_cart"},
     status : {"success", "failed"}]

StepLists == UNION {[1..n -> StepRecords] : n \in 0..MaxSteps}

\* planner.py:313-348 _analyze_remaining_tasks: actions_done holds the
\* action of every executed step whatever its result; a line is listed
\* when the goal has the keyword and the action is not in actions_done
AnalyzeRemainingTasks(goal, steps) ==
    LET actions_done == {steps[i].action : i \in 1..Len(steps)}
        searching == GoalHas(goal, "search") \/ GoalHas(goal, "find")
        buying == \/ GoalHas(goal, "buy") \/ GoalHas(goal, "purchase")
                  \/ GoalHas(goal, "add to cart")
        comparing == GoalHas(goal, "cheapest") \/ GoalHas(goal, "best")
        first ==
            IF searching
            THEN (IF "navigate" \notin actions_done
                  THEN <<"- Navigate to search site">> ELSE <<>>)
                 \o (IF "type" \notin actions_done
                     THEN <<"- Enter search query">> ELSE <<>>)
                 \o (IF "extract" \notin actions_done
                        /\ "find_best" \notin actions_done
                     THEN <<"- Extract/analyze results">> ELSE <<>>)
            ELSE <<>>
        second ==
            IF buying
            THEN (IF "find_best" \notin actions_done
                  THEN <<"- Find and select product">> ELSE <<>>)
                 \o (IF "add_to_cart" \notin actions_done
                     THEN <<"- Add product to cart">> ELSE <<>>)
                 \o (IF "human_pause" \notin actions_done
                     THEN <<"- Pause for checkout completion">> ELSE <<>>)
            ELSE <<>>
        third ==
            IF comparing /\ "extract" \notin actions_done
                         /\ "find_best" \notin actions_done
            THEN <<"- Compare items and select best">> ELSE <<>>
        remaining == first \o second \o third
    IN  IF remaining = <<>>
        THEN <<"Goal appears complete - verify and finalize if needed">>
        ELSE remaining

\* agent.py:233-250 the recovery hands the goal and the executed steps to
\* generate_plan
RecoveryInit ==
    /\ AgentIdle
    /\ ui_cache = EmptyCache
    /\ page = NoPage
    /\ now = 0
    /\ cache_config = DefaultCacheConfig
    /\ op \in [kind : {"error_context"}, n : {0}, goal : RecoveryGoals,
                executed_steps : StepLists]
    /\ ctx_last = NoCall
    /\ heal_analysis = NoCall
    /\ PlannerIdle
    /\ FileIdle

\* planner.py:226-293 the recovery prompt is built: its list of what still
\* needs to be done (planner.py:268)
BuildRecoveryPrompt ==
    /\ op.kind = "error_context"
    /\ op' = [kind |-> "prompt", n |-> 0, goal |-> op.goal,
              executed_steps |-> op.executed_steps,
              remaining |-> AnalyzeRemainingTasks(op.goal,
                                                  op.executed_steps)]
    /\ UNCHANGED <<agentVars, execVars, ctx_last, heal_analysis,
                   plannerVars, fileVars>>

RecoverySpec == RecoveryInit /\ [][BuildRecoveryPrompt]_vars

\* ------------------------------ a later task of one agent (SecondTaskSpec)

\* the agent when execute() is called again after an earlier task: the
\* finally clause of that task has closed the browser (agent.py:110-111),
\* executor.browser and executor.page still hold the closed objects
\* (executor.py:178-187 resets neither), and execute() builds a new
\* context (agent.py:72-73)
SecondTaskInit ==
    /\ AgentReady
    /\ browser = "closed"
    /\ ui_cache \in InitialCaches
    /\ page = TargetPage
    /\ now = 0
    /\ cache_config = DefaultCacheConfig
    /\ LogInit
    /\ PlannerIdle
    /\ FileIdle

SecondTaskSpec == SecondTaskInit /\ [][Next]_vars

\* --------------------------- two executors on one file (SharedFileSpec)

\* no write of either executor yet
NoWrite == [kind |-> "none", by |-> 0, key |-> <<>>, hash |-> <<>>]

\* executor.py:29-42 two executors (two tasks or processes) construct their
\* UICache on the same cache file: each loads the map the file holds
SharedInit ==
    /\ AgentIdle
    /\ ui_cache \in InitialCaches
    /\ peer_cache = ui_cache
    /\ cache_file = FileHolding(ui_cache)
    /\ save_pc = "idle"
    /\ page = NoPage
    /\ now = 0
    /\ cache_config = DefaultCacheConfig
    /\ op = [kind |-> "none", n |-> 0, by |-> 0, key |-> <<>>,
             hash |-> <<>>, prev |-> NoWrite]
    /\ ctx_last = NoCall
    /\ heal_analysis = NoCall
    /\ PlannerIdle

\* the map of executor e
CacheOf(e) == IF e = 1 THEN ui_cache ELSE peer_cache

\* executor.py:44-49 save by executor e, whose map has become new: the text
\* of its whole map replaces the content of the file (the file is
\* writable, the save runs to its end)
SharedSave(e, new, kind, key, ui_hash) ==
    /\ ui_cache' = IF e = 1 THEN new ELSE ui_cache
    /\ peer_cache' = IF e = 2 THEN new ELSE peer_cache
    /\ cache_file' = FileHolding(new)
    /\ op' = [kind |-> kind, n |-> 1 - op.n, by |-> e, key |-> key,
              hash |-> ui_hash,
              prev |-> [kind |-> op.kind, by |-> op.by, key |-> op.key,
                        hash |-> op.hash]]

\* executor.py:64-76 set by one of the executors
SharedSetOp ==
    /\ \E e \in {1, 2}, u \in PageUrls, text \in Texts :
          SharedSave(e, CacheSet(CacheOf(e), u, Hash(text),
                                 BuildUiAnalysis([url |-> u, text |-> text,
                                                  elements |-> "E1"]), now),
                     "set", NormalizeUrl(u), Hash(text))
    /\ UNCHANGED <<agentVars, page, now, cache_config, ctx_last,
                   heal_analysis, plannerVars, save_pc>>

\* executor.py:78-83 invalidate by one of the executors: the file is
\* written when the key is in the map of that executor
SharedInvalidateOp ==
    /\ \E e \in {1, 2}, u \in PageUrls :
          /\ NormalizeUrl(u) \in DOMAIN CacheOf(e)
          /\ SharedSave(e, CacheInvalidate(CacheOf(e), u), "invalidate",
                        NormalizeUrl(u), <<>>)
    /\ UNCHANGED <<agentVars, page, now, cache_config, ctx_last,
                   heal_analysis, plannerVars, save_pc>>

SharedNext ==
    \/ SharedSetOp
    \/ SharedInvalidateOp

SharedFileSpec == SharedInit /\ [][SharedNext]_vars

\* ------------------------------------------------------------ properties

\* the transition table of the lifecycle (spec section 4.5)
TransitionTable ==
    {<<"idle", "planning">>,
     <<"planning", "awaiting_approval">>, <<"planning", "executing">>,
     <<"planning", "error">>,
     <<"awaiting_approval", "executing">>, <<"awaiting_approval", "cancelled">>,
     <<"awaiting_approval", "error">>,
     <<"executing", "completed">>, <<"executing", "error">>,
     <<"error", "self_healing">>, <<"error", "completed">>,
     <<"self_healing", "executing">>, <<"self_healing", "error">>,
     <<"self_healing", "completed">>}

TerminalStates == {"completed", "cancelled"}

\* the task is over: execute() has returned or raised
Finished == pc \in {"done", "exited"}

\* number of recoveries performed before position i of the observed states
HealsBefore(i) ==
    Cardinality({j \in 1..(i - 1) : history[j] = "self_healing"})

HealsPerformed == HealsBefore(Len(history) + 1)

\* the actions dispatched from the plan installed last
DispatchedOfCurrentPlan ==
    SelectSeq(dispatched, LAMBDA d : d.plan = plan_no)

LastStepFailed ==
    /\ Len(executed_steps) > 0
    /\ executed_steps[Len(executed_steps)].status = "failed"

\* C1: the observed states form a path of the transition table: state is the
\* last observed state, every two consecutive observed states are an edge of
\* the table, and a terminal state (completed, cancelled) is never left.
C1_StatesFollowTransitionTable ==
    /\ state = history[Len(history)]
    /\ \A i \in 1..(Len(history) - 1) :
          /\ <<history[i], history[i + 1]>> \in TransitionTable
          /\ history[i] \notin TerminalStates

\* C1 witness: a task that recovered and completed
C1_Witness ==
    /\ Finished
    /\ state = "completed"
    /\ history = <<"idle", "planning", "awaiting_approval", "executing",
                   "error", "self_healing", "executing", "completed">>

\* C2: every generate_plan call of a task, initial or recovery, gets the
\* request string given to execute() as its user_request argument.
C2_GoalPreserved ==
    \A i \in 1..Len(planner_calls) : planner_calls[i].user_request = request

\* C2 witness: the task is over and made a recovery planner call
C2_Witness ==
    /\ Finished
    /\ Len(planner_calls) = 2
    /\ planner_calls[2].recovery
    /\ planner_calls[1].user_request = "search python"

\* C3 (as claimed): with approval enabled and a callback set, a risky action
\* is dispatched only from a plan that the callback was given and approved,
\* recovery plans included.
C3_RiskyDispatchedOnlyIfApproved ==
    (require_approval /\ approval_callback) =>
        \A i \in 1..Len(dispatched) :
            dispatched[i].action \in risky_actions =>
                dispatched[i].plan \in approved

\* C4: after the callback rejected a plan holding auto_login, the observed
\* states are idle, planning, awaiting_approval, cancelled, the state is
\* cancelled, nothing was dispatched or executed and no recovery planner call
\* was made.
C4_RejectionCancelsWithoutActions ==
    approval_answer = "rejected" =>
        /\ history = <<"idle", "planning", "awaiting_approval", "cancelled">>
        /\ state = "cancelled"
        /\ executed_steps = <<>>
        /\ dispatched = <<>>
        /\ Len(planner_calls) = 1
        /\ \E i \in 1..Len(action_plan) : action_plan[i] = "auto_login"

\* C4 witness: the task is over after a rejection
C4_Witness ==
    /\ Finished
    /\ approval_answer = "rejected"
    /\ state = "cancelled"

\* C5 (as claimed): a rejection ends execute() with a returned result of
\* status "cancelled", no exception, and exit code 0 of the front-end.
C5_RejectionIsNonError ==
    (Finished /\ approval_answer = "rejected") =>
        /\ raised = None
        /\ result.status = "cancelled"
        /\ (pc = "exited" => exit_code = 0)

C7_HealIffAttemptsRemain ==
    Finished =>
        /\ \A i \in 1..Len(history) :
              history[i] = "error" =>
                  ((HealsBefore(i) < max_self_heal_attempts)
                     <=> (i < Len(history) /\ history[i + 1] = "self_healing"))
        /\ (/\ max_self_heal_attempts = DefaultMaxSelfHealAttempts
            /\ plan_no = 2
            /\ DispatchedOfCurrentPlan # <<>>
            /\ LastStepFailed) => FALSE

\* C8 (as claimed): a task in which every planner call returned a plan and
\* every dispatched step failed, and that returned "error", ended by the
\* transition error -> completed, in state completed, with a non-empty error
\* and one executed_steps entry per dispatched action.
C8_ExhaustedRecoveryCompletes ==
    (/\ Finished
     /\ raised = None
     /\ result.status = "error"
     /\ Len(planner_calls) = plan_no
     /\ \A i \in 1..Len(executed_steps) : executed_steps[i].status = "failed"
     /\ LastStepFailed) =>
        /\ state = "completed"
        /\ Len(history) >= 2
        /\ history[Len(history) - 1] = "error"
        /\ result.state = "completed"
        /\ result.error # None
        /\ Len(executed_steps) = Len(dispatched)

\* C9 (as claimed): every execute() call ends by returning a summary and
\* propagates no exception.
C9_ExecuteAlwaysReturns ==
    Finished =>
        /\ raised = None
        /\ result.status \in {"success", "error", "cancelled"}
        /\ result.request = request
        /\ result.state = state

\* C10: after a recovery the installed plan is exactly the plan returned by
\* the recovery planner call, the actions dispatched since are its elements
\* 0, 1, ... in order, and current_step_idx is 0 until the first of them is
\* dispatched.
C10_RecoveryPlanReplaces ==
    plan_no >= 2 =>
        /\ action_plan = returned_plan
        /\ Len(DispatchedOfCurrentPlan) <= Len(returned_plan)
        /\ \A k \in 1..Len(DispatchedOfCurrentPlan) :
              /\ k <= Len(returned_plan)
              /\ DispatchedOfCurrentPlan[k].action = returned_plan[k]
              /\ DispatchedOfCurrentPlan[k].idx = k - 1
        /\ (DispatchedOfCurrentPlan = <<>> => current_step_idx = 0)
        /\ (DispatchedOfCurrentPlan # <<>> =>
               current_step_idx = Len(DispatchedOfCurrentPlan) - 1)

\* C10 witness: a recovery plan of two actions, different from the failed
\* plan, was dispatched in full
C10_Witness ==
    /\ plan_no = 2
    /\ Len(DispatchedOfCurrentPlan) = 2
    /\ dispatched[1].plan = 1
    /\ dispatched[1].action # DispatchedOfCurrentPlan[1].action
    /\ state = "completed"

\* the executed steps that belong to plan number n (executed_steps and
\* dispatched are appended to together)
StepsOfPlan(n) ==
    {k \in 1..Len(executed_steps) : dispatched[k].plan = n}

FailedSteps == {k \in 1..Len(executed_steps) : executed_steps[k].status = "failed"}

\* C11: in every recovery the analysis request finds no cache entry under the
\* normalized url of the current page, is made with force_fresh, returns an
\* analysis that is not marked cached, and the ui_text of that analysis is the
\* UI summary given to the recovery planner call.
C11_RecoveryAnalysisFresh ==
    heal_analysis.called =>
        /\ ~heal_analysis.entry_present
        /\ heal_analysis.force_fresh
        /\ ~heal_analysis.analysis.cached
        /\ Len(planner_calls) >= 1
        /\ planner_calls[Len(planner_calls)].recovery
        /\ planner_calls[Len(planner_calls)].ui_context =
              heal_analysis.analysis.ui_text

\* C11 witness: a recovery on the target page after a failed auto_login (a
\* failure that leaves the cache alone), with the analysis script succeeding
C11_Witness ==
    /\ heal_analysis.called
    /\ heal_analysis.script_ok
    /\ heal_analysis.key = NormalizeUrl(UrlAQuery)
    /\ LastStepFailed
    /\ executed_steps[Len(executed_steps)].action = "auto_login"
    /\ pc = "execution"

\* C13: when the task is over after exactly one failed step, a step of the
\* initial plan, and a recovery plan all of whose steps were executed, the
\* state is completed, the result is "success" with self_heal_attempts 1 and
\* no error, and the last observed states are executing, error,
\* self_healing, executing, completed.
C13_OneFailureRecovered ==
    (/\ Finished
     /\ plan_no = 2
     /\ Cardinality(FailedSteps) = 1
     /\ FailedSteps \subseteq StepsOfPlan(1)
     /\ Cardinality(StepsOfPlan(2)) = Len(action_plan))
    =>
        /\ state = "completed"
        /\ raised = None
        /\ result.status = "success"
        /\ result.state = "completed"
        /\ self_heal_attempts = 1
        /\ result.self_heal_attempts = 1
        /\ error_message = None
        /\ result.error = None
        /\ Len(history) >= 5
        /\ SubSeq(history, Len(history) - 4, Len(history)) =
              <<"executing", "error", "self_healing", "executing",
                "completed">>

\* C13 witness: the second step of the initial plan failed and a recovery
\* plan of two steps ran to its end
C13_Witness ==
    /\ Finished
    /\ plan_no = 2
    /\ FailedSteps = {2}
    /\ StepsOfPlan(2) = {3, 4}
    /\ result.status = "success"

\* an upper bound on the number of steps a task can still take: the
\* positions of execute() in the order they are passed, the loop counted by
\* the steps that remain, the pass after a recovery below the first pass
StepsLeft ==
    CASE pc = "exited" -> 0
      [] pc = "done" -> 1
      [] pc = "finally" -> 2
      [] pc = "heal_except" -> 3
      [] pc = "step" /\ in_heal -> 4 + (Len(action_plan) - idx)
      [] pc = "execution" /\ in_heal -> 5 + MaxPlanLen
      [] pc = "heal" -> 6 + MaxPlanLen
      [] pc = "except" -> 7 + MaxPlanLen
      [] pc = "step" /\ ~in_heal -> 8 + MaxPlanLen + (Len(action_plan) - idx)
      [] pc = "execution" /\ ~in_heal -> 9 + 2 * MaxPlanLen
      [] pc = "approval" -> 10 + 2 * MaxPlanLen
      [] pc = "plan" -> 11 + 2 * MaxPlanLen
      [] pc = "start" -> 12 + 2 * MaxPlanLen
      [] OTHER -> 13 + 2 * MaxPlanLen + (IF approval_callback THEN 0 ELSE 1)

\* C14: every execute() call terminates: while the task is not over a step
\* can be taken (every primitive returns), and every step lowers StepsLeft,
\* a natural number; at no time has the task made more than
\* 1 + max_self_heal_attempts generate_plan calls or dispatched more actions
\* than its plans hold.
C14_ExecuteTerminates ==
    /\ [](pc # "exited" => ENABLED Next)
    /\ [](StepsLeft \in Nat)
    /\ [][StepsLeft' < StepsLeft]_vars
    /\ [](Len(planner_calls) <= 1 + max_self_heal_attempts)
    /\ [](Len(dispatched) <= MaxPlanLen * Len(planner_calls))

\* C14 witness: a finished task with two generate_plan calls and all the
\* actions of two plans dispatched
C14_Witness ==
    /\ Finished
    /\ Len(planner_calls) = 2
    /\ Len(dispatched) = 2 * MaxPlanLen

\* the normalized form of each url of the model, written out: query string,
\* fragment and trailing slash removed
NormalForm(url) ==
    CASE url = UrlAQuery -> <<"https://x.com", "/", "a">>
      [] OTHER -> url

\* C15: a get(u, h) returns an entry only if the cache, as it was before the
\* call, holds an entry under the normalized form of u whose hash is h; a get
\* that returns nothing leaves the cache as it was.
C15_GetNeedsMatchingHash ==
    [][(op'.kind = "get" /\ op'.n # op.n) =>
          IF op'.hit
          THEN /\ NormalForm(op'.url) \in DOMAIN ui_cache
               /\ ui_cache[NormalForm(op'.url)].hash = op'.hash
               /\ DOMAIN ui_cache' = DOMAIN ui_cache
          ELSE ui_cache' = ui_cache]_vars

\* C15 witness: a get with a url that carries a query string and a fragment
\* hit the entry stored under its normalized form
C15_Witness ==
    /\ op.kind = "get"
    /\ op.hit
    /\ op.url = UrlAQuery
    /\ DOMAIN ui_cache = {UrlA, UrlB}
    /\ ui_cache[UrlA].hash # ui_cache[UrlB].hash

\* C17 (as claimed): the cache never holds more than max_entries entries.
C17_CacheBounded ==
    Cardinality(DOMAIN ui_cache) <= cache_config.max_entries

\* C18 (as claimed): a get never returns an entry stored more than
\* max_age_hours ago.
C18_OldEntriesAbsent ==
    (op.kind = "get" /\ op.hit) => op.age <= cache_config.max_age_hours

\* C12 (as claimed): when execute_action has returned failed because a
\* page-control operation failed, the cache holds no entry under the
\* normalized url of the page.
C12_FailureInvalidates ==
    (op.kind = "execute" /\ op.status = "failed" /\ op.page_failure) =>
        NormalForm(page.url) \notin DOMAIN ui_cache

\* a step in which get_page_context is called without force_fresh on a page
\* with the normalized url and the body text of the call before it, itself
\* made without force_fresh, the url not having been invalidated in between
SecondCallOnSamePage ==
    /\ ctx_last.called
    /\ ctx_last'.called
    /\ ctx_last'.n # ctx_last.n
    /\ ctx_last.on_page
    /\ ctx_last'.on_page
    /\ ~ctx_last.force_fresh
    /\ ~ctx_last'.force_fresh
    /\ ctx_last'.key = ctx_last.key
    /\ ctx_last'.text = ctx_last.text
    /\ ~ctx_last.invalidated

Vocabulary ==
    {"navigate", "type", "click", "scroll", "wait", "extract", "find_best",
     "add_to_cart", "auto_login", "human_pause", "screenshot"}

\* a non-empty list of records with an action of the vocabulary, a url for
\* navigate and a selector for type, click and wait
WellFormedPlan(plan) ==
    /\ Len(plan) >= 1
    /\ \A i \in 1..Len(plan) :
          /\ plan[i] \in [action : Vocabulary, url : {"", "u"},
                          selector : {"", "s"}]
          /\ plan[i].action = "navigate" => plan[i].url = "u"
          /\ plan[i].action \in {"type", "click", "wait"} =>
                plan[i].selector = "s"

\* C19: what generate_plan returns is the oracle response it received last,
\* and it is a well-formed plan; a response that is not well-formed is never
\* returned.
C19_ReturnedPlanIsValid ==
    /\ Cardinality(Vocabulary) = 11
    /\ gp_pc = "returned" =>
          /\ gp_output.kind = "array"
          /\ gp_result = gp_output.value
          /\ WellFormedPlan(gp_result)

\* C19 witness: after a rejected response, a plan of a navigate and a wait,
\* both with their required fields, was returned
C19_Witness ==
    /\ gp_pc = "returned"
    /\ gp_failed >= 1
    /\ Len(gp_result) = 2
    /\ gp_result[1].action = "navigate"
    /\ gp_result[2].action = "wait"

\* C20: a generate_plan call sends at most 3 requests; while it runs every
\* request so far has failed and fewer than 3 were sent; it returns on the
\* first response that is a well-formed plan, and it raises exactly when 3
\* requests have failed.
C20_AtMostThreeAttempts ==
    /\ gp_requests <= 3
    /\ gp_pc = "attempt" => gp_failed = gp_requests /\ gp_requests < 3
    /\ gp_pc = "returned" =>
          /\ gp_failed = gp_requests - 1
          /\ gp_output.kind = "array"
          /\ WellFormedPlan(gp_output.value)
    /\ gp_pc = "raised" => gp_failed = 3 /\ gp_requests = 3

\* C20 witness: the third request failed as the two before it and the call
\* raised
C20_Witness ==
    /\ gp_pc = "raised"
    /\ gp_requests = 3
    /\ gp_failed = 3
    /\ gp_output.kind = "array"

\* C27: awaiting_approval is entered if and only if approval is required and
\* the plan contains a risky action; a plan without risky actions goes from
\* planning directly to executing; with approval disabled awaiting_approval
\* is never entered and the approval callback is never invoked.
C27_ApprovalOnlyForRiskyPlans ==
    /\ (plan_no = 1 /\ Len(history) >= 3 /\ history[2] = "planning") =>
          /\ history[3] = "awaiting_approval" =>
                require_approval /\ HasRisky(action_plan)
          /\ (require_approval /\ HasRisky(action_plan)) =>
                history[3] = "awaiting_approval"
          /\ ~HasRisky(action_plan) => history[3] = "executing"
    /\ ~require_approval =>
          /\ \A i \in 1..Len(history) : history[i] # "awaiting_approval"
          /\ approval_answer = "none"

\* C22: execute_action returns a record whose status is success or failed
\* for every action record (known or unknown discriminator, missing fields,
\* no browser started) and every error raised inside a handler; it never
\* raises; an action whose discriminator is outside the vocabulary returns
\* failed without a page primitive being called.
C22_ExecuteActionNeverRaises ==
    op.kind = "execute" =>
        /\ op.status \in {"success", "failed"}
        /\ page = NoPage => op.status = "failed" /\ ~op.primitive
        /\ op.action \notin Vocabulary =>
              op.status = "failed" /\ ~op.primitive
        /\ op.ev \in {"missing_field", "other_error"} => op.status = "failed"

\* C22 witness: with a page open, a scroll whose amount is not a number
\* raised a TypeError inside the handler and execute_action returned failed
C22_Witness ==
    /\ op.kind = "execute"
    /\ page # NoPage
    /\ op.action = "scroll"
    /\ op.ev = "other_error"
    /\ op.status = "failed"

\* a step in which the result of a wait action is recorded
WaitStep ==
    /\ Len(executed_steps') = Len(executed_steps) + 1
    /\ executed_steps'[Len(executed_steps')].action = "wait"

\* the position in the observed states of the entry into executing during
\* which step k was dispatched: every plan that is executed has a first
\* step, so it is the n-th entry for the n-th plan with dispatched steps
ExecutingIdx(k) ==
    LET n == Cardinality({dispatched[j].plan : j \in 1..k})
        at == {i \in 1..Len(history) : history[i] = "executing"}
    IN  CHOOSE i \in at : Cardinality({j \in at : j <= i}) = n

\* once execute() is through, the execution in which a wait failed is seen
\* to have been followed by the error state
FailedWaitEntersError ==
    \A k \in 1..Len(executed_steps) :
        (/\ executed_steps[k].action = "wait"
         /\ executed_steps[k].status = "failed"
         /\ Finished) =>
            /\ Len(history) > ExecutingIdx(k)
            /\ history[ExecutingIdx(k) + 1] = "error"

\* the executor's half of C23: a wait is recorded with the note only on a
\* body text longer than 100 characters, as a success after which the next
\* action of the plan is up; on such a body text no wait fails; a wait that
\* failed met a body text of 100 characters or fewer
WaitResultFollowsBodyLength ==
    WaitStep =>
        LET last == executed_steps'[Len(executed_steps')]
        IN  /\ last.note =>
                  /\ last.status = "success"
                  /\ BodyLength(page.text) > 100
                  /\ pc' = "step"
                  /\ idx' = idx + 1
            /\ BodyLength(page.text) > 100 => last.status = "success"
            /\ last.status = "failed" =>
                  /\ BodyLength(page.text) <= 100
                  /\ pc' \in {"except", "heal_except"}

\* C23 (as claimed): a wait whose selector never appears returns success
\* with a note exactly when the body text is longer than 100 characters, and
\* the agent then runs the next action of the plan; on a body text of 100
\* characters or fewer the wait returns failed and the agent enters the
\* error state.
C23_WaitSoftSuccess ==
    /\ [][WaitResultFollowsBodyLength]_vars
    /\ [](FailedWaitEntersError)

\* C28: actions are dispatched one at a time in plan order: within a plan a
\* dispatch follows a dispatch of the action before it that returned
\* success, the first dispatch of a plan is its action 0, plans are never
\* gone back to, and the actions dispatched since the current plan was
\* installed are a prefix of that plan; so every action of a plan but
\* possibly the last dispatched succeeded and nothing is dispatched after a
\* failed action until a new plan is installed.
C28_DispatchInPlanOrder ==
    /\ \A k \in 1..Len(dispatched) :
          /\ (k = 1 \/ dispatched[k - 1].plan # dispatched[k].plan) =>
                dispatched[k].idx = 0
          /\ (k > 1 /\ dispatched[k - 1].plan = dispatched[k].plan) =>
                /\ dispatched[k].idx = dispatched[k - 1].idx + 1
                /\ k - 1 <= Len(executed_steps)
                /\ executed_steps[k - 1].status = "success"
          /\ k > 1 => dispatched[k - 1].plan <= dispatched[k].plan
          /\ dispatched[k].plan <= plan_no
    /\ Len(DispatchedOfCurrentPlan) <= Len(action_plan)
    /\ \A k \in 1..Len(DispatchedOfCurrentPlan) :
          /\ k <= Len(action_plan)
          /\ DispatchedOfCurrentPlan[k].action = action_plan[k]

\* C28 witness: the initial plan of two different actions was dispatched in
\* full, the second action failed, and the recovery plan has had its first
\* action dispatched
C28_Witness ==
    /\ Len(dispatched) = 3
    /\ dispatched[1].plan = 1
    /\ dispatched[2].plan = 1
    /\ dispatched[1].action # dispatched[2].action
    /\ executed_steps[1].status = "success"
    /\ executed_steps[2].status = "failed"
    /\ dispatched[3].plan = 2
    /\ plan_no = 2

\* C29: executed_steps is an append-only log: its length is the number of
\* execute_action calls made so far in the task, successful and failed,
\* across the initial and the recovery plans, and its entries are the
\* actions of those calls in the order of the calls, whatever plan is
\* installed.
C29_ExecutedStepsAppendOnly ==
    /\ Len(executed_steps) = Len(dispatched)
    /\ \A k \in 1..Len(executed_steps) :
          /\ k <= Len(dispatched)
          /\ executed_steps[k].action = dispatched[k].action
    /\ result.status # "none" => result.steps_executed = Len(dispatched)

\* C29 witness: three calls in all, a failed one of the initial plan and two
\* of the recovery plan, the task over
C29_Witness ==
    /\ Finished
    /\ Len(executed_steps) = 3
    /\ executed_steps[1].status = "failed"
    /\ dispatched[1].plan = 1
    /\ dispatched[3].plan = 2
    /\ action_plan # <<dispatched[1].action>>

\* C30: for every key, hit_count is the number of get calls that hit the key
\* since the last set of the key: the counter is never negative; a set
\* leaves under the key a new entry with the given hash, the time of the
\* call as timestamp, hit_count 0 and no last_hit, and leaves every other
\* entry alone; a hit adds exactly 1 to the hit_count of its key, stamps its
\* last_hit and changes nothing else; a miss changes nothing.
C30_HitCountCountsHits ==
    /\ [](\A k \in DOMAIN ui_cache : ui_cache[k].hit_count >= 0)
    /\ [][(op'.n # op.n /\ op'.kind \in {"get", "set"}) =>
             LET k == NormalForm(op'.url)
             IN  IF op'.kind = "set"
                 THEN /\ DOMAIN ui_cache' = DOMAIN ui_cache \union {k}
                      /\ ui_cache'[k].hit_count = 0
                      /\ ui_cache'[k].last_hit = -1
                      /\ ui_cache'[k].hash = op'.hash
                      /\ ui_cache'[k].timestamp = now
                      /\ ~ui_cache'[k].analysis.cached
                      /\ \A x \in DOMAIN ui_cache \ {k} :
                            ui_cache'[x] = ui_cache[x]
                 ELSE IF op'.hit
                 THEN /\ k \in DOMAIN ui_cache
                      /\ ui_cache' =
                            [ui_cache EXCEPT ![k].hit_count = @ + 1,
                                             ![k].last_hit = now]
                 ELSE ui_cache' = ui_cache]_vars

\* C30 witness: an entry stored at time 0 was hit for the first time later,
\* under a url that differs from its key, while another entry sits unhit
C30_Witness ==
    /\ op.kind = "get"
    /\ op.hit
    /\ op.url = UrlAQuery
    /\ ui_cache[UrlA].hit_count = 1
    /\ ui_cache[UrlA].timestamp = 0
    /\ ui_cache[UrlA].last_hit = ClockStep
    /\ UrlB \in DOMAIN ui_cache
    /\ ui_cache[UrlB].hit_count = 0

\* k is u cut before its first "?" or "#", without the slashes that end
\* that part: k starts u, holds neither "?" nor "#", does not end in "/",
\* and what follows k in u is a run of slashes that ends u or is followed
\* by "?" or "#"
IsKeyOf(k, u) ==
    /\ Len(k) <= Len(u)
    /\ k = SubSeq(u, 1, Len(k))
    /\ \A i \in 1..Len(k) : k[i] \notin {"?", "#"}
    /\ k # <<>> => k[Len(k)] # "/"
    /\ \A i \in (Len(k) + 1)..Len(u) :
          u[i] = "/" \/ \E j \in (Len(k) + 1)..i : u[j] \in {"?", "#"}

\* u and v differ only in query string, fragment or trailing slashes
DifferOnlyInTail(u, v) ==
    \E n \in 0..Min({Len(u), Len(v)}) :
        /\ IsKeyOf(SubSeq(u, 1, n), u)
        /\ IsKeyOf(SubSeq(u, 1, n), v)

\* C25: the key of a url holds no query string, no fragment and no trailing
\* slash and is the url up to there, letter case kept; normalizing a key
\* gives the key; two urls that differ only in query string, fragment or
\* trailing slashes have one key, so that an entry set under one is found
\* by get and removed by invalidate under the other.
C25_KeyNormalized ==
    op.kind \in {"key_set", "key_get", "key_invalidate"} =>
        /\ IsKeyOf(op.key, op.u)
        /\ op.rekey = op.key
        /\ op.kind \in {"key_set", "key_get"} => DOMAIN ui_cache = {op.key}
        /\ (op.kind = "key_get" /\ DifferOnlyInTail(op.u, op.v)) => op.hit
        /\ (op.kind = "key_invalidate" /\ DifferOnlyInTail(op.u, op.v)) =>
              op.hit /\ ui_cache = EmptyCache

\* C25 witness: the entry set under https://x.com/a/?q=1#h was found and
\* removed under https://x.com/a
C25_Witness ==
    /\ op.kind = "key_invalidate"
    /\ op.u = UrlAQuery
    /\ op.v = UrlA
    /\ op.key = UrlA
    /\ op.hit
    /\ ui_cache = EmptyCache

C26_FileAlwaysComplete ==
    /\ cache_file.content = "complete"
    /\ cache_file.map \in {cache_file.before, ui_cache}

\* the array of objects that a response of shape d writes down
WrittenArray(d) ==
    [i \in 1..d.n |->
        << <<<<"action">>, <<"type">>>>, <<<<"text">>, StringBody(d.body)>> >>]

\* the text of the response is JSON but for single quotes around its
\* strings or commas before } or ]
OnlyQuotesAndCommas(d) ==
    /\ d.colon
    /\ d.quote = SQ \/ d.comma_obj \/ d.comma_arr

LoadedFromFile ==
    IF cache_file.content = "complete" THEN cache_file.map ELSE EmptyCache

\* C31 (as claimed): once the executor has been stopped at the end of the
\* task, a cache loaded from the file equals the in-memory map of the
\* finished task, the hit_count and last_hit that get has written included.
C31_FileEqualsMemoryAtStop ==
    save_pc = "finished" => LoadedFromFile = ui_cache

\* C32 (as claimed): a get_page_context call without force_fresh on a page
\* whose script succeeds returns the selectors that a fresh analysis of the
\* page shown would give, also when the elements of the page have changed
\* under the same body text since the analysis was stored.
C32_NoStaleSelectors ==
    [][(/\ ctx_last' # ctx_last
        /\ ctx_last'.called
        /\ ctx_last'.on_page
        /\ ~ctx_last'.force_fresh
        /\ ctx_last'.script_ok)
       => ctx_last'.analysis.selectors = BuildUiAnalysis(page).selectors]_vars

\* C33: when the in-page script fails, the analysis returned carries the
\* error as its ui_text and is not marked cached, the cache gets no entry
\* for the url of the page (during the first planning it is the cache as
\* loaded), and the planner call that follows is made with that ui_text.
C33_ScriptFailureReachesPlanner ==
    /\ (/\ state = "planning"
        /\ planner_calls # <<>>
        /\ planner_calls[1].ui_context = <<"Error">>)
       => ui_cache \in InitialCaches
    /\ (/\ heal_analysis.called
        /\ heal_analysis.on_page
        /\ ~heal_analysis.script_ok)
       => /\ heal_analysis.analysis.ui_text = <<"Error">>
          /\ ~heal_analysis.analysis.cached
          /\ planner_calls[Len(planner_calls)].recovery
          /\ planner_calls[Len(planner_calls)].ui_context = <<"Error">>
          /\ state = "self_healing"
             => NormalizeUrl(page.url) \notin DOMAIN ui_cache

C33_Witness ==
    /\ state = "self_healing"
    /\ heal_analysis.called
    /\ heal_analysis.on_page
    /\ ~heal_analysis.script_ok
    /\ planner_calls[1].ui_context = <<"Error">>
    /\ planner_calls[Len(planner_calls)].recovery
    /\ planner_calls[Len(planner_calls)].ui_context = <<"Error">>

\* C38: once execute() is over, its result has status "success" exactly
\* when the final state of the task is completed (a call that raised has
\* no result and is not completed); a result with status "error" never has
\* state completed, and a result with status "success" never carries an
\* error.
C38_StatusMatchesFinalState ==
    /\ Finished => ((result.status = "success") <=> (state = "completed"))
    /\ result.status # "none"
       => /\ (result.status = "success") <=> (result.state = "completed")
          /\ result.status = "error" => result.state # "completed"
          /\ result.status = "success" => result.error = None

C38_Witness ==
    /\ result.status = "success"
    /\ result.state = "completed"
    /\ result.self_heal_attempts >= 1
    /\ result.error = None

\* the price the claim gives an item: the parsed price of its price text,
\* +infinity for a text without digits (an item without a price text has
\* no digits either)
ClaimedPrice(item) ==
    IF HasPrice(item) THEN ParsePrice(item.price) ELSE Infinity

\* item s is, among the items at the indexes of S, the first of those of
\* lowest price
FirstOfLowest(items, S, s) ==
    /\ s \in S
    /\ \A j \in S :
          /\ ~PriceLess(ClaimedPrice(items[j]), ClaimedPrice(items[s]))
          /\ j < s => PriceLess(ClaimedPrice(items[s]),
                                ClaimedPrice(items[j]))

C35_SuccessWheneverLinked ==
    (op.kind = "find_best" /\ op.goto_ok)
    => /\ (\E i \in 1..Len(op.items) : op.items[i].link # NoLink)
          => /\ op.result.status = "success"
             /\ page.url = op.items[op.result.item].link
       /\ op.result.status = "failed"
          => \/ op.items = <<>>
             \/ \E i \in 1..Len(op.items) : op.items[i].link = NoLink

\* C36 (as claimed): the recommended search selector is the selector of the
\* first input whose name or id contains 'search' when there is one, of
\* the first input of type search only when there is none, and the default
\* pattern only when there is neither; an earlier input of type search does
\* not win over a later input whose name or id contains 'search'.
C36_NamedInputWins ==
    op.kind = "recommended"
    => LET named == {i \in 1..Len(op.inputs) :
                        \/ ContainsSearch(op.inputs[i].name)
                        \/ ContainsSearch(op.inputs[i].id)}
           typed == {i \in 1..Len(op.inputs) : op.inputs[i].type = "search"}
       IN  op.selector =
              IF named # {} THEN op.inputs[Min(named)].selector
              ELSE IF typed # {} THEN op.inputs[Min(typed)].selector
              ELSE DefaultSearchSelector

\* the outstanding tasks of the recovery prompt: the line, the goal words
\* that make the task part of the goal, and the actions that carry it out
OutstandingTasks ==
    {[line |-> "- Navigate to search site", words |-> {"search", "find"},
      actions |-> {"navigate"}],
     [line |-> "- Enter search query", words |-> {"search", "find"},
      actions |-> {"type"}],
     [line |-> "- Extract/analyze results", words |-> {"search", "find"},
      actions |-> {"extract", "find_best"}],
     [line |-> "- Find and select product",
      words |-> {"buy", "purchase", "add to cart"},
      actions |-> {"find_best"}],
     [line |-> "- Add product to cart",
      words |-> {"buy", "purchase", "add to cart"},
      actions |-> {"add_to_cart"}],
     [line |-> "- Pause for checkout completion",
      words |-> {"buy", "purchase", "add to cart"},
      actions |-> {"human_pause"}],
     [line |-> "- Compare items and select best",
      words |-> {"cheapest", "best"}, actions |-> {"extract", "find_best"}]}

\* C40 (as claimed): a task of the goal is missing from the list of what
\* still needs to be done only when one of its actions was executed with
\* status success; an action whose only executions failed leaves its task
\* listed.
C40_DroppedOnlyAfterSuccess ==
    op.kind = "prompt"
    => \A t \in OutstandingTasks :
          (/\ \E w \in t.words : GoalHas(op.goal, w)
           /\ \A i \in 1..Len(op.remaining) : op.remaining[i] # t.line)
          => \E i \in 1..Len(op.executed_steps) :
                /\ op.executed_steps[i].action \in t.actions
                /\ op.executed_steps[i].status = "success"

\* C39 (as claimed): while an execute() call of an agent is planning or
\* running its actions, the second and later calls included, the browser
\* is started and not closed.
C39_BrowserStartedForEveryTask ==
    (planner_calls # <<>> /\ pc \notin {"finally", "done", "exited"})
    => browser = "started"

\* C37 (as claimed): when a set by one executor under a URL is followed by
\* a set or an invalidate by the other executor under another URL, the
\* file holds, after both writes, the entry the first set stored and the
\* effect of the second write.
C37_NoLostUpdate ==
    (/\ op.kind \in {"set", "invalidate"}
     /\ op.prev.kind = "set"
     /\ op.prev.by # op.by
     /\ op.prev.key # op.key)
    => /\ op.prev.key \in DOMAIN cache_file.map
       /\ cache_file.map[op.prev.key].hash = op.prev.hash
       /\ op.kind = "set" => /\ op.key \in DOMAIN cache_file.map
                             /\ cache_file.map[op.key].hash = op.hash
       /\ op.kind = "invalidate" => op.key \notin DOMAIN cache_file.map

====
